---- MODULE Spec2Model ----
(***************************************************************************)
(* Model of the audit batching and verification subsystem of agent-poi:    *)
(*   - the Merkle tree primitive    (src/agent/poi/merkle_audit.py)        *)
(*   - the AuditBatcher              (src/agent/poi/merkle_audit.py)        *)
(*   - the ledger client's index cache (src/agent/solana_client/client.py) *)
(*   - the _flush_audit loop, shutdown and the adaptive trigger engine     *)
(*     (src/agent/multi_main.py)                                           *)
(*                                                                         *)
(* Python lists are sequences; Python indices are 0-based and are kept     *)
(* 0-based in the operators' parameters (hashes[i] is hashes[i + 1] here). *)
(***************************************************************************)
EXTENDS Integers, Sequences, FiniteSets, TLC

\* ------------------------------------------------------------------------
\* Bounds of the model
\* ------------------------------------------------------------------------

\* longest list of hashes given to the Merkle functions
MaxHashes == 4

\* number of log() calls in one run
MaxLog == 3

\* the batcher's batch_size (a constructor parameter, 10 by default)
batch_size == 2

\* number of roots another writer stores on the ledger for this agent
MaxExternal == 1

\* last reading of the monotonic clock, in seconds
MaxClock == 3600

\* ------------------------------------------------------------------------
\* Digests, hex strings and SHA-256
\* ------------------------------------------------------------------------
\* A 32-byte digest is a nested tuple: <<n>> is the digest numbered n, and
\* <<l, r>> is sha256(l + r) of the two 32-byte digests l and r.  The pair is
\* injective in (l, r): SHA-256 is treated as collision-free.  A digest that
\* is a leaf may itself be the hash of a pair (a 32-byte value is a 32-byte
\* value), which is why <<<<1>>, <<2>>>> is among the leaf digests below.

\* hashlib.sha256(left + right).digest()
Sha256Pair(left, right) == <<left, right>>

\* A hex string is a record: the bytes it denotes and whether it is written
\* with upper-case letters.  hexdigest() and bytes.hex() write lower case,
\* bytes.fromhex() reads both.

\* bytes.hex()
ToHex(b) == [bytes |-> b, upper |-> FALSE]

\* bytes.fromhex(h)
FromHex(h) == h.bytes

\* "0" * 64, the root of the empty tree: the hex string of 32 zero bytes
EmptyRoot == ToHex(<<0>>)

\* the digests the inputs are drawn from
LeafDigests == {<<1>>, <<2>>, <<<<1>>, <<2>>>>}

\* the entry hashes a list is built from: AuditEntry._compute_hash returns
\* hashlib.sha256(...).hexdigest(), a digest in lower case
EntryDigests == {ToHex(d) : d \in LeafDigests}

\* the hex strings that can be handed to verify_merkle_proof in the place of
\* an entry's hash: a digest in lower case or in upper case (bytes.fromhex
\* reads both)
LeafHashes == {[bytes |-> d, upper |-> u] : d \in LeafDigests, u \in BOOLEAN}

\* ------------------------------------------------------------------------
\* Merkle tree primitive
\* ------------------------------------------------------------------------

\* a next level that leaves out the last node of an odd level (and keeps
\* a level of one node)
NextLevel_last_dropped(level) ==
    [k \in 1..(IF Len(level) = 1 THEN 1 ELSE Len(level) \div 2) |->
        IF Len(level) = 1 THEN level[1]
        ELSE Sha256Pair(level[2 * k - 1], level[2 * k])]

\* a next level that pads an odd level with a zero node
NextLevel_zero_padded(level) ==
    [k \in 1..((Len(level) + 1) \div 2) |->
        LET left  == level[2 * k - 1]
            right == IF 2 * k <= Len(level) THEN level[2 * k] ELSE <<0>>
        IN  Sha256Pair(left, right)]

\* one pass of the inner for loop: the next level of the tree; an odd last
\* node is paired with itself
NextLevel(level) ==
    [k \in 1..((Len(level) + 1) \div 2) |->
        LET left  == level[2 * k - 1]
            right == IF 2 * k <= Len(level) THEN level[2 * k] ELSE left
        IN  Sha256Pair(left, right)]

\* the while loop of compute_merkle_root
RECURSIVE ReduceLevels(_)
ReduceLevels(level) ==
    IF Len(level) > 1 THEN ReduceLevels(NextLevel(level)) ELSE level

compute_merkle_root(hashes) ==
    IF hashes = <<>> THEN EmptyRoot
    ELSE IF Len(hashes) = 1 THEN hashes[1]
    ELSE ToHex(ReduceLevels([i \in 1..Len(hashes) |-> FromHex(hashes[i])])[1])

\* a proof step that names the sibling's side the other way round
ProofStep_positions_swapped(level, current_index) ==
    LET i     == current_index - (current_index % 2)
        left  == level[i + 1]
        right == IF i + 1 < Len(level) THEN level[i + 2] ELSE left
    IN  IF current_index % 2 = 0
        THEN [position |-> "left",  hash |-> ToHex(right)]
        ELSE [position |-> "right", hash |-> ToHex(left)]

\* the proof step the inner loop records for the pair holding current_index
\* (i is the even 0-based index of the pair's left node)
ProofStep(level, current_index) ==
    LET i     == current_index - (current_index % 2)
        left  == level[i + 1]
        right == IF i + 1 < Len(level) THEN level[i + 2] ELSE left
    IN  IF current_index % 2 = 0
        THEN [position |-> "right", hash |-> ToHex(right)]
        ELSE [position |-> "left",  hash |-> ToHex(left)]

\* the while loop of compute_merkle_proof
RECURSIVE ProofLevels(_, _, _)
ProofLevels(level, current_index, proof) ==
    IF Len(level) > 1
    THEN ProofLevels(NextLevel(level), current_index \div 2,
                     IF current_index < Len(level)
                     THEN Append(proof, ProofStep(level, current_index))
                     ELSE proof)
    ELSE proof

compute_merkle_proof(hashes, index) ==
    IF hashes = <<>> \/ index >= Len(hashes) THEN <<>>
    ELSE ProofLevels([i \in 1..Len(hashes) |-> FromHex(hashes[i])], index, <<>>)

\* the for loop of verify_merkle_proof
RECURSIVE VerifyFold(_, _, _)
VerifyFold(current, proof, k) ==
    IF k > Len(proof) THEN current
    ELSE LET sibling == FromHex(proof[k].hash)
         IN  VerifyFold(IF proof[k].position = "left"
                        THEN Sha256Pair(sibling, current)
                        ELSE Sha256Pair(current, sibling),
                        proof, k + 1)

verify_merkle_proof(entry_hash, proof, root) ==
    ToHex(VerifyFold(FromHex(entry_hash), proof, 1)) = root

\* ------------------------------------------------------------------------
\* Audit entries and batches
\* ------------------------------------------------------------------------

\* Python's None (a missing tx_signature, a missing cache entry)
None == -1

\* retry_failed_batches: only the last MAX_RETRY failed batches are retried
MAX_RETRY == 10

\* What an entry says: (action_type, timestamp, details) up to equality.
\* The n-th entry logged says ContentOf(n): neighbours differ, and every
\* other entry repeats an earlier one (the same hash twice).
ContentOf(n) == 1 + ((n - 1) % 2)

\* AuditEntry.__post_init__ / _compute_hash: the hash is the SHA-256 of the
\* canonical JSON of the content, one digest per content.  uid is the
\* identity of the Python object (the n-th entry returned by log()).
AuditEntry(uid, content) ==
    [uid |-> uid, content |-> content, entry_hash |-> ToHex(<<content>>)]

\* AuditEntry.to_dict
to_dict(e) == e

\* get_batch_hashes, applied to a list of entries
EntryHashes(entries) == [i \in 1..Len(entries) |-> entries[i].entry_hash]

\* the ledger's kinds of failure (spec section 6), as the text of the error
Errors == {"transient", "collision", "permanent"}

\* flush line 310, retry line 394: the index-collision signature
\* ("2006" or "seeds constraint" in the error text)
IsSeedsError(e) == e = "collision"

\* the tasks that call into the batcher: the _flush_audit loop and a caller
\* of the batcher's API (the /merkle-flush-test endpoint, a test, a script)
Tasks == {"loop", "api"}

\* no store has succeeded since a submit last began
NoStore == [idx |-> None, emptied |-> FALSE]

\* The locals of a task that is not inside a batcher call.  Of the submit
\* attempts of a call the task notes their number n, the index idx and its
\* source src ("cache" or "chain") of the current one, and the outcome prev
\* of the one before, and in after the store that succeeded since the
\* attempt before began (last_stored as the attempt found it).  Of a
\* retry_failed_batches call it also notes, in attempts, the batch (its
\* position) and the outcome of every attempt.
NoCall ==
    [op |-> "none", force |-> FALSE, batch_data |-> <<>>, attempt |-> 0,
     to_retry |-> <<>>, k |-> 0, retried |-> 0, consecutive_failures |-> 0,
     idx |-> None, src |-> "none", prev |-> "none", n |-> 0, after |-> NoStore,
     pending_at_call |-> <<>>, attempts |-> <<>>]

\* no call has returned in the last step
NoReturn == [op |-> "none"]

\* ------------------------------------------------------------------------
\* State
\* ------------------------------------------------------------------------
VARIABLES
    \* AuditBatcher
    pending_entries,        \* list of AuditEntry
    flushed_batches,        \* list of batch dicts
    total_entries_logged,
    total_batches_stored,
    has_client,             \* the registration gave a client: there is a
                            \* batcher, with solana_client and agent_pda set
    \* AgentRegistryClient
    merkle_batch_cache,     \* _merkle_batch_cache[agent_pda], None if absent
    last_stored,            \* history of the client: the index of the store
                            \* that succeeded since a submit last began and
                            \* whether the cache was emptied after it
                            \* (NoStore if none succeeded)
    \* the external ledger: the roots stored for this agent, by batch index
    ledger,
    external,               \* roots stored by another writer (bounded)
    \* local durable storage
    disk,                   \* batch_index -> contents of batch_<index>.json
    state_file,             \* <slug>_state.json: whether it exists, contents
    \* the tasks
    task,                   \* per task: where it is and its locals
    returned,               \* what the call that returned in the last step
                            \* returned (NoReturn if none did)
    stopped,                \* _shutdown_agent has run
    logged                  \* number of log() calls so far (entry identities)

batcher_vars ==
    <<pending_entries, flushed_batches, total_entries_logged,
      total_batches_stored, has_client, merkle_batch_cache, last_stored,
      ledger, external, disk, state_file, task, returned, stopped, logged>>

\* the Merkle functions applied to one input
VARIABLES
    m_hashes,               \* the list of hashes given
    m_index,                \* the index given
    m_root,                 \* compute_merkle_root(m_hashes)
    m_proof,                \* compute_merkle_proof(m_hashes, m_index)
    m_verified,             \* verify_merkle_proof of the three
    m_other,                \* another hash, given instead of hashes[m_index]
    m_other_verified,       \* verify_merkle_proof of it, the proof and the root
    m_other_root,           \* the root of the list with it at m_index
    m_done                  \* the functions have been applied

merkle_vars ==
    <<m_hashes, m_index, m_root, m_proof, m_verified, m_other,
      m_other_verified, m_other_root, m_done>>

\* the adaptive trigger engine's part of AgentState, and the clock
VARIABLES
    now,                        \* time.monotonic(), in seconds
    urgent_cooldowns,           \* _urgent_cooldowns: category -> last fired
    hourly_challenge_count,     \* _hourly_challenge_count
    hourly_challenge_reset_ts,  \* _hourly_challenge_reset_ts
    last_reputation,
    reputation_score,           \* agent_info["reputation_score"]
    online_peers,               \* names of the peers with status "online"
    challenged_peers,           \* target_agent of the last 20 challenges
    self_domain_scores,         \* domain -> list of own scores
    result,                     \* what the last call returned
    last_fired,                 \* category -> time of its last firing
    fired_since_reset,          \* firings since the last hourly reset
    fired_times                 \* time -> number of triggers fired at it

trigger_vars ==
    <<now, urgent_cooldowns, hourly_challenge_count, hourly_challenge_reset_ts,
      last_reputation, reputation_score, online_peers, challenged_peers,
      self_domain_scores, result, last_fired, fired_since_reset, fired_times>>

\* the question selector of an agent
VARIABLES
    peer_history,           \* _peer_history: peer name -> set of question ids
    selected,               \* what the last select_question was asked and gave
    asked_log               \* peer name -> the ids selected for it, in order

selector_vars == <<peer_history, selected, asked_log>>

\* _get_weakest_domain on its own
VARIABLES
    wd_self_scores,         \* state.self_domain_scores, in dict order
    wd_peer_scores,         \* state.domain_scores, in dict order
    wd_result,              \* _get_weakest_domain(state): <<>> for None
    wd_done,                \* the function has been applied
    wd_scored               \* how many scores each window has been given

weakest_vars ==
    <<wd_self_scores, wd_peer_scores, wd_result, wd_done, wd_scored>>

\* the domains that get own scores and peer scores, and no score given yet
SelfDomains == {"defi", "security"}
PeerDomains == {"defi"}
NoneScored ==
    [self |-> [d \in SelfDomains |-> 0], peer |-> [d \in PeerDomains |-> 0]]

\* the cross-agent challenge loop and the discovery of peers
VARIABLES
    peers,                  \* state.peers: the peers' names, in registry order
    loop_idx,               \* idx: the loop's round-robin counter
    discovery,              \* per caller of _discover_peers: the peer whose
                            \* probe it waits for (its place in state.peers),
                            \* 0 when it is not inside _discover_peers
    tick                    \* what the loop's pass has done so far

tick_vars == <<peers, loop_idx, discovery, tick>>

vars ==
    <<batcher_vars, merkle_vars, trigger_vars, selector_vars, weakest_vars,
      tick_vars>>

\* the fields of AgentState, the selector's history and the challenge
\* loop's counter: what a process holds in memory besides its batcher
Agent ==
    [urgent_cooldowns |-> urgent_cooldowns,
     hourly_challenge_count |-> hourly_challenge_count,
     hourly_challenge_reset_ts |-> hourly_challenge_reset_ts,
     last_reputation |-> last_reputation,
     self_domain_scores |-> self_domain_scores,
     online_peers |-> online_peers,
     challenged_peers |-> challenged_peers,
     peer_history |-> peer_history,
     loop_idx |-> loop_idx]

\* AgentState's defaults (multi_main.py lines 160-198), a new
\* QuestionSelector (line 1261) and idx = 0 (line 448)
NewAgentState ==
    [urgent_cooldowns |-> <<>>,
     hourly_challenge_count |-> 0,
     hourly_challenge_reset_ts |-> 0,
     last_reputation |-> 5000,
     self_domain_scores |-> <<>>,
     online_peers |-> {},
     challenged_peers |-> {},
     peer_history |-> <<>>,
     loop_idx |-> 0]

\* The operations are written as functions from world to world (a record of
\* the batcher's variables, with the agent's fields beside them), so that
\* code that runs without an await in between is one step, however many
\* functions it goes through.
World ==
    [pending_entries |-> pending_entries, flushed_batches |-> flushed_batches,
     total_entries_logged |-> total_entries_logged,
     total_batches_stored |-> total_batches_stored, has_client |-> has_client,
     merkle_batch_cache |-> merkle_batch_cache, last_stored |-> last_stored,
     ledger |-> ledger,
     external |-> external, disk |-> disk, state_file |-> state_file,
     task |-> task, returned |-> NoReturn, stopped |-> stopped,
     logged |-> logged, agent |-> Agent]

Becomes(w) ==
    /\ pending_entries' = w.pending_entries
    /\ flushed_batches' = w.flushed_batches
    /\ total_entries_logged' = w.total_entries_logged
    /\ total_batches_stored' = w.total_batches_stored
    /\ has_client' = w.has_client
    /\ merkle_batch_cache' = w.merkle_batch_cache
    /\ last_stored' = w.last_stored
    /\ ledger' = w.ledger
    /\ external' = w.external
    /\ disk' = w.disk
    /\ state_file' = w.state_file
    /\ task' = w.task
    /\ returned' = w.returned
    /\ stopped' = w.stopped
    /\ logged' = w.logged

\* the agent's fields become those of the world w
BecomesAgent(w) ==
    /\ urgent_cooldowns' = w.agent.urgent_cooldowns
    /\ hourly_challenge_count' = w.agent.hourly_challenge_count
    /\ hourly_challenge_reset_ts' = w.agent.hourly_challenge_reset_ts
    /\ last_reputation' = w.agent.last_reputation
    /\ self_domain_scores' = w.agent.self_domain_scores
    /\ online_peers' = w.agent.online_peers
    /\ challenged_peers' = w.agent.challenged_peers
    /\ peer_history' = w.agent.peer_history
    /\ loop_idx' = w.agent.loop_idx

\* ------------------------------------------------------------------------
\* AuditBatcher.log
\* ------------------------------------------------------------------------
\* a log that flushes the pending entries itself once there are batch_size
LogEntry_auto_flush(w) ==
    LET w1 == [w EXCEPT !.pending_entries =
                   Append(@, AuditEntry(w.logged + 1, ContentOf(w.logged + 1))),
                        !.total_entries_logged = @ + 1,
                        !.logged = @ + 1]
        batch_data ==
            [batch_index   |-> w1.total_batches_stored,
             merkle_root   |-> compute_merkle_root(EntryHashes(w1.pending_entries)),
             entries_count |-> Len(w1.pending_entries),
             entries       |-> [i \in 1..Len(w1.pending_entries) |->
                                    to_dict(w1.pending_entries[i])],
             tx_signature  |-> None,
             on_chain      |-> FALSE,
             store_error   |-> ""]
    IN  IF Len(w1.pending_entries) < batch_size THEN w1
        ELSE [w1 EXCEPT !.flushed_batches = Append(@, batch_data),
                        !.total_batches_stored = @ + 1,
                        !.pending_entries = <<>>]

\* lines 220-234
LogEntry(w) ==
    [w EXCEPT !.pending_entries =
                  Append(@, AuditEntry(w.logged + 1, ContentOf(w.logged + 1))),
              !.total_entries_logged = @ + 1,
              !.logged = @ + 1]

\* AuditBatcher.should_flush
should_flush(w) == Len(w.pending_entries) >= batch_size

\* ------------------------------------------------------------------------
\* AgentRegistryClient.store_merkle_audit, up to its await of the rpc
\* ------------------------------------------------------------------------
\* The surroundings of the batcher in a specification: whether a call may
\* start while another one waits, whether the RPC node's reads may lag, the
\* ways other than the index collision in which a submit may fail, whether
\* the agent is ever started again, and whether the attempts of a retry
\* call are kept for the properties stated of them.

\* the calls that follow one another, on a node that lags and fails
Serial ==
    [overlap |-> FALSE, lag |-> TRUE, faults |-> {"transient"},
     restarts |-> FALSE, history |-> FALSE]
\* the same, the ledger refusing submits for good as well (no funds, no
\* authority)
Failing == [Serial EXCEPT !.faults = {"transient", "permanent"}]
\* two calls at once, on a node that answers every read and submit: the
\* loop, and the endpoints /merkle-flush-test and /merkle-test
Overlapping ==
    [overlap |-> TRUE, lag |-> FALSE, faults |-> {}, restarts |-> FALSE,
     history |-> FALSE]
\* the ledger behind a node whose reads are current, failing transiently
Steady ==
    [overlap |-> FALSE, lag |-> FALSE, faults |-> {"transient"},
     restarts |-> TRUE, history |-> FALSE]

\* What store_merkle_audit takes for batch_index from get_merkle_summary
\* (client.py lines 711-721 and 742-743): the ledger's count; where reads may
\* lag, a count one behind or 0 (no summary found yet); and 0 where the
\* node may fail, the fetch raising and the summary being None.
LedgerReads(w, env) ==
    {Len(w.ledger)}
        \cup (IF env.lag \/ env.faults # {} THEN {0} ELSE {})
        \cup (IF env.lag /\ Len(w.ledger) > 0 THEN {Len(w.ledger) - 1} ELSE {})

\* a store that reads the index from the ledger's summary at every submit
StoreSubmit_always_read(w, t) ==
    [w EXCEPT !.task[t].at = "read",
              !.task[t].c.idx = None,
              !.task[t].c.src = "chain",
              !.task[t].c.n = @ + 1,
              !.task[t].c.after = w.last_stored,
              !.last_stored = NoStore]

\* client.py lines 737-742: store_merkle_audit up to its first await.  With
\* a cached index that is the rpc under it; without, the read of the
\* ledger's summary.
StoreSubmit(w, t) ==
    IF w.merkle_batch_cache # None
    THEN [w EXCEPT !.task[t].at = "rpc",
                   !.task[t].c.idx = w.merkle_batch_cache,
                   !.task[t].c.src = "cache",
                   !.task[t].c.n = @ + 1,
                   !.task[t].c.after = w.last_stored,
                   !.last_stored = NoStore]
    ELSE [w EXCEPT !.task[t].at = "read",
                   !.task[t].c.idx = None,
                   !.task[t].c.src = "chain",
                   !.task[t].c.n = @ + 1,
                   !.task[t].c.after = w.last_stored,
                   !.last_stored = NoStore]

\* client.py lines 742-757: get_merkle_summary has answered; the task
\* submits under the index read (rv) and waits for the rpc to return
ReadAnswered(w, t, rv) ==
    [w EXCEPT !.task[t].at = "rpc", !.task[t].c.idx = rv]

\* lines 757-775: the rpc succeeded: the ledger holds the root under idx,
\* the next index is cached and the transaction's signature returned.  The
\* signature is modelled by the index the root was stored under.
StoreSucceeded(w, t, merkle_root, entries_count) ==
    [w EXCEPT !.ledger = Append(@, [merkle_root |-> merkle_root,
                                    entries_count |-> entries_count]),
              !.merkle_batch_cache = w.task[t].c.idx + 1,
              !.last_stored = [idx |-> w.task[t].c.idx, emptied |-> FALSE],
              !.task[t].c.prev = "ok"]

\* a recovery that leaves the cache entry in place
InvalidateCache_kept(w) == w

\* flush line 314, retry line 396: _merkle_batch_cache.pop(agent_pda, None)
InvalidateCache(w) ==
    [w EXCEPT !.merkle_batch_cache = None,
              !.last_stored = IF @ = NoStore THEN NoStore
                              ELSE [@ EXCEPT !.emptied = TRUE]]

\* a _save_batch that writes no file
save_batch_skipped(w, batch_data) == w

\* AuditBatcher._save_batch: batch_<batch_index>.json is (over)written
save_batch(w, batch_data) ==
    [w EXCEPT !.disk = (batch_data.batch_index :> batch_data) @@ @]

\* ------------------------------------------------------------------------
\* AuditBatcher.flush
\* ------------------------------------------------------------------------
\* flush returns ret (<<>> for None, <<batch>> for a batch)
EndFlush(w, t, ret) ==
    [w EXCEPT !.task[t].at = "returned",
              !.returned =
                  [op |-> "flush", by |-> t, force |-> w.task[t].c.force,
                   pending_at_call |-> w.task[t].c.pending_at_call,
                   n |-> w.task[t].c.n, last |-> w.task[t].c.prev,
                   ret |-> ret],
              !.task[t].c = [NoCall EXCEPT !.op = "flush"]]

\* a flush that appends the batch and does not clear the pending entries
FlushFinish_pending_kept(w, t) ==
    LET batch_data == w.task[t].c.batch_data
        w1 == save_batch(w, batch_data)
        w2 == [w1 EXCEPT !.flushed_batches = Append(@, batch_data),
                         !.total_batches_stored = @ + 1]
    IN  EndFlush(w2, t, <<batch_data>>)

\* a flush that appends the batch without counting it
FlushFinish_not_counted(w, t) ==
    LET batch_data == w.task[t].c.batch_data
        w1 == save_batch(w, batch_data)
        w2 == [w1 EXCEPT !.flushed_batches = Append(@, batch_data),
                         !.pending_entries = <<>>]
    IN  EndFlush(w2, t, <<batch_data>>)

\* lines 335-343: save the batch locally, append it, clear pending, return it
FlushFinish(w, t) ==
    LET batch_data == w.task[t].c.batch_data
        w1 == save_batch(w, batch_data)
        w2 == [w1 EXCEPT !.flushed_batches = Append(@, batch_data),
                         !.total_batches_stored = @ + 1,
                         !.pending_entries = <<>>]
    IN  EndFlush(w2, t, <<batch_data>>)

\* a batch record whose root covers the hashes in reverse order
NewBatch_reversed_root(w) ==
    [batch_index   |-> w.total_batches_stored,
     merkle_root   |-> compute_merkle_root(
                           [i \in 1..Len(w.pending_entries) |->
                               w.pending_entries[Len(w.pending_entries) + 1 - i].entry_hash]),
     entries_count |-> Len(w.pending_entries),
     entries       |-> [i \in 1..Len(w.pending_entries) |->
                            to_dict(w.pending_entries[i])],
     tx_signature  |-> None,
     on_chain      |-> FALSE,
     store_error   |-> ""]

\* a batch record numbered by the ledger's batch count
NewBatch_ledger_index(w) ==
    [batch_index   |-> Len(w.ledger),
     merkle_root   |-> compute_merkle_root(EntryHashes(w.pending_entries)),
     entries_count |-> Len(w.pending_entries),
     entries       |-> [i \in 1..Len(w.pending_entries) |->
                            to_dict(w.pending_entries[i])],
     tx_signature  |-> None,
     on_chain      |-> FALSE,
     store_error   |-> ""]

\* lines 266-284: the batch record built from the pending entries (the
\* "store_error" key is absent until a store fails: "" stands for absent)
NewBatch(w) ==
    [batch_index   |-> w.total_batches_stored,
     merkle_root   |-> compute_merkle_root(EntryHashes(w.pending_entries)),
     entries_count |-> Len(w.pending_entries),
     entries       |-> [i \in 1..Len(w.pending_entries) |->
                            to_dict(w.pending_entries[i])],
     tx_signature  |-> None,
     on_chain      |-> FALSE,
     store_error   |-> ""]

\* a flush that takes an unforced call below batch_size as a forced one
FlushBegin_threshold_ignored(w, t, force) ==
    LET w0 == [w EXCEPT !.task[t].c =
                   [NoCall EXCEPT !.op = "flush", !.force = force,
                                  !.pending_at_call = w.pending_entries]]
    IN  IF w.pending_entries = <<>> THEN EndFlush(w0, t, <<>>)
        ELSE LET w1 == [w0 EXCEPT !.task[t].c.batch_data = NewBatch(w)]
             IN  IF w.has_client THEN StoreSubmit(w1, t)
                 ELSE FlushFinish(w1, t)

\* a flush that makes a batch of no entries
FlushBegin_empty_batch(w, t, force) ==
    LET w0 == [w EXCEPT !.task[t].c =
                   [NoCall EXCEPT !.op = "flush", !.force = force,
                                  !.pending_at_call = w.pending_entries]]
    IN  IF ~force /\ Len(w.pending_entries) < batch_size
        THEN EndFlush(w0, t, <<>>)
        ELSE LET w1 == [w0 EXCEPT !.task[t].c.batch_data = NewBatch(w)]
             IN  IF w.has_client THEN StoreSubmit(w1, t)
                 ELSE FlushFinish(w1, t)

\* lines 258-299: from the call to the first await (or to the return)
FlushBegin(w, t, force) ==
    LET w0 == [w EXCEPT !.task[t].c =
                   [NoCall EXCEPT !.op = "flush", !.force = force,
                                  !.pending_at_call = w.pending_entries]]
    IN  IF w.pending_entries = <<>> THEN EndFlush(w0, t, <<>>)
        ELSE IF ~force /\ Len(w.pending_entries) < batch_size
             THEN EndFlush(w0, t, <<>>)
        ELSE LET w1 == [w0 EXCEPT !.task[t].c.batch_data = NewBatch(w)]
             IN  IF w.has_client THEN StoreSubmit(w1, t)
                 ELSE FlushFinish(w1, t)

\* lines 299-326: the awaited _store_root_on_chain returns or raises
FlushRpcReturn(w, t, outcome) ==
    LET c == w.task[t].c
    IN  IF outcome = "ok"
        THEN LET w1 == StoreSucceeded(w, t, c.batch_data.merkle_root,
                                      c.batch_data.entries_count)
             IN  FlushFinish([w1 EXCEPT
                     !.task[t].c.batch_data.tx_signature = c.idx,
                     !.task[t].c.batch_data.on_chain = TRUE], t)
        ELSE LET w1 == [w EXCEPT !.task[t].c.prev = outcome]
             IN  IF IsSeedsError(outcome)
                 THEN [InvalidateCache(w1) EXCEPT !.task[t].at = "backoff"]
                 ELSE IF c.attempt < 2
                 THEN [w1 EXCEPT !.task[t].at = "backoff"]
                 ELSE FlushFinish([w1 EXCEPT
                          !.task[t].c.batch_data.store_error = outcome], t)

\* a for loop over range(4)
FlushWake_four_attempts(w, t) ==
    IF w.task[t].c.attempt < 3
    THEN StoreSubmit([w EXCEPT !.task[t].c.attempt = @ + 1], t)
    ELSE FlushFinish(w, t)

\* the sleep after a failed attempt is over: the for loop goes on, or is over
FlushWake(w, t) ==
    IF w.task[t].c.attempt < 2
    THEN StoreSubmit([w EXCEPT !.task[t].c.attempt = @ + 1], t)
    ELSE FlushFinish(w, t)

\* ------------------------------------------------------------------------
\* AuditBatcher.retry_failed_batches
\* ------------------------------------------------------------------------
EndRetry(w, t, ret) ==
    [w EXCEPT !.task[t].at = "returned",
              !.returned = [op |-> "retry", by |-> t, n |-> w.task[t].c.n,
                            ret |-> ret, to_retry |-> w.task[t].c.to_retry,
                            attempts |-> w.task[t].c.attempts],
              !.task[t].c = [NoCall EXCEPT !.op = "retry"]]

\* the failed ones among the MAX_RETRY batches flushed last
FailedPositions_of_last_flushed(batches) ==
    SelectSeq([i \in 1..Len(batches) |-> i],
              LAMBDA i : /\ batches[i].tx_signature = None
                         /\ i > Len(batches) - MAX_RETRY)

\* lines 355-358: the failed batches, as their positions in flushed_batches
FailedPositions(batches) ==
    SelectSeq([i \in 1..Len(batches) |-> i],
              LAMBDA i : batches[i].tx_signature = None)

\* seq[-n:]
LastN(seq, n) ==
    SubSeq(seq, (IF Len(seq) > n THEN Len(seq) - n + 1 ELSE 1), Len(seq))

\* a retry of every failed batch, however many there are
RetryBegin_all_failed(w, t) ==
    LET w0 == [w EXCEPT !.task[t].c = [NoCall EXCEPT !.op = "retry"]]
        to_retry == FailedPositions(w.flushed_batches)
    IN  IF ~w.has_client THEN EndRetry(w0, t, 0)
        ELSE IF to_retry = <<>> THEN EndRetry(w0, t, 0)
        ELSE StoreSubmit([w0 EXCEPT !.task[t].c.to_retry = to_retry,
                                    !.task[t].c.k = 1], t)

\* lines 349-373: from the call to the first await (or to the return)
RetryBegin(w, t) ==
    LET w0 == [w EXCEPT !.task[t].c = [NoCall EXCEPT !.op = "retry"]]
        to_retry == LastN(FailedPositions(w.flushed_batches), MAX_RETRY)
    IN  IF ~w.has_client THEN EndRetry(w0, t, 0)
        ELSE IF to_retry = <<>> THEN EndRetry(w0, t, 0)
        ELSE StoreSubmit([w0 EXCEPT !.task[t].c.to_retry = to_retry,
                                    !.task[t].c.k = 1], t)

\* one attempt of a retry call: the batch's position and the outcome
Attempt(p, outcome) == [p |-> p, outcome |-> outcome]

\* a retry loop that counts the failures of the call, consecutive or not
RetryRpcReturn_failures_summed(w, t, outcome) ==
    LET c     == w.task[t].c
        p     == c.to_retry[c.k]
        batch == w.flushed_batches[p]
    IN  IF outcome = "ok"
        THEN LET w1 == StoreSucceeded(w, t, batch.merkle_root, batch.entries_count)
                 b1 == [batch EXCEPT !.tx_signature = c.idx, !.on_chain = TRUE,
                                     !.store_error = ""]
                 w2 == save_batch([w1 EXCEPT !.flushed_batches[p] = b1], b1)
             IN  [w2 EXCEPT !.task[t].c.retried = @ + 1,
                            !.task[t].c.attempts = Append(@, Attempt(p, outcome)),
                            !.task[t].at = "backoff"]
        ELSE LET w1 == [w EXCEPT !.task[t].c.prev = outcome,
                                 !.task[t].c.consecutive_failures = @ + 1,
                                 !.task[t].c.attempts = Append(@, Attempt(p, outcome))]
                 w2 == IF IsSeedsError(outcome) THEN InvalidateCache(w1) ELSE w1
             IN  IF c.consecutive_failures + 1 >= 3
                 THEN EndRetry(w2, t, c.retried)
                 ELSE [w2 EXCEPT !.task[t].at = "backoff"]

\* a retry that keeps the stored batch without its entries
RetryRpcReturn_entries_dropped(w, t, outcome) ==
    LET c     == w.task[t].c
        p     == c.to_retry[c.k]
        batch == w.flushed_batches[p]
    IN  IF outcome = "ok"
        THEN LET w1 == StoreSucceeded(w, t, batch.merkle_root, batch.entries_count)
                 b1 == [batch EXCEPT !.tx_signature = c.idx, !.on_chain = TRUE,
                                     !.store_error = "", !.entries = <<>>]
                 w2 == save_batch([w1 EXCEPT !.flushed_batches[p] = b1], b1)
             IN  [w2 EXCEPT !.task[t].c.retried = @ + 1,
                            !.task[t].c.consecutive_failures = 0,
                            !.task[t].c.attempts = Append(@, Attempt(p, outcome)),
                            !.task[t].at = "backoff"]
        ELSE LET w1 == [w EXCEPT !.task[t].c.prev = outcome,
                                 !.task[t].c.consecutive_failures = @ + 1,
                                 !.task[t].c.attempts = Append(@, Attempt(p, outcome))]
                 w2 == IF IsSeedsError(outcome) THEN InvalidateCache(w1) ELSE w1
             IN  IF c.consecutive_failures + 1 >= 3
                 THEN EndRetry(w2, t, c.retried)
                 ELSE [w2 EXCEPT !.task[t].at = "backoff"]

\* lines 373-401: the awaited _store_root_on_chain returns or raises
RetryRpcReturn(w, t, outcome) ==
    LET c     == w.task[t].c
        p     == c.to_retry[c.k]
        batch == w.flushed_batches[p]
    IN  IF outcome = "ok"
        THEN LET w1 == StoreSucceeded(w, t, batch.merkle_root, batch.entries_count)
                 b1 == [batch EXCEPT !.tx_signature = c.idx, !.on_chain = TRUE,
                                     !.store_error = ""]
                 w2 == save_batch([w1 EXCEPT !.flushed_batches[p] = b1], b1)
             IN  [w2 EXCEPT !.task[t].c.retried = @ + 1,
                            !.task[t].c.consecutive_failures = 0,
                            !.task[t].c.attempts = Append(@, Attempt(p, outcome)),
                            !.task[t].at = "backoff"]
        ELSE LET w1 == [w EXCEPT !.task[t].c.prev = outcome,
                                 !.task[t].c.consecutive_failures = @ + 1,
                                 !.task[t].c.attempts = Append(@, Attempt(p, outcome))]
                 w2 == IF IsSeedsError(outcome) THEN InvalidateCache(w1) ELSE w1
             IN  IF c.consecutive_failures + 1 >= 3
                 THEN EndRetry(w2, t, c.retried)
                 ELSE [w2 EXCEPT !.task[t].at = "backoff"]

\* the sleep after an attempt is over: the next batch, or return
RetryWake(w, t) ==
    IF w.task[t].c.k < Len(w.task[t].c.to_retry)
    THEN StoreSubmit([w EXCEPT !.task[t].c.k = @ + 1], t)
    ELSE EndRetry(w, t, w.task[t].c.retried)

\* ------------------------------------------------------------------------
\* The /merkle-test endpoint (multi_main.py lines 1608-1627)
\* ------------------------------------------------------------------------
\* the root the endpoint makes up: the digest of a text that no entry has
TestRoot == ToHex(<<4>>)

\* the endpoint returns its info, with test_store SUCCESS or FAILED
EndTest(w, t, test_store) ==
    [w EXCEPT !.task[t].at = "returned",
              !.returned = [op |-> "merkle_test", by |-> t,
                            test_store |-> test_store,
                            n |-> w.task[t].c.n],
              !.task[t].c = [NoCall EXCEPT !.op = "merkle_test"]]

\* lines 1618-1621: with a batcher that has a client the endpoint calls
\* _store_root_on_chain(test_root, 1); without, it returns the info alone
merkle_test(w, t) ==
    LET w0 == [w EXCEPT !.task[t].c = [NoCall EXCEPT !.op = "merkle_test"]]
    IN  IF w.has_client THEN StoreSubmit(w0, t)
        ELSE EndTest(w0, t, "none")

\* the diagnostic endpoints that use the batcher or its client
Requests == {"merkle_flush_test", "merkle_test"}

\* multi_main.py lines 1629-1639, POST /merkle-flush-test: the endpoint logs
\* a test entry and calls flush(force=True), no await in between, so the
\* batch is cut over the pending entries with the new one among them
merkle_flush_test(w, t) == FlushBegin(LogEntry(w), t, TRUE)

\* lines 1621-1626: the awaited store returns (the root is on the ledger,
\* the next index cached, no batch made) or raises (the error is reported)
TestRpcReturn(w, t, outcome) ==
    IF outcome = "ok"
    THEN EndTest([StoreSucceeded(w, t, TestRoot, 1) EXCEPT !.external = @ + 1],
                 t, "SUCCESS")
    ELSE EndTest([w EXCEPT !.task[t].c.prev = outcome], t, "FAILED")

\* ------------------------------------------------------------------------
\* save_state and the _flush_audit loop
\* ------------------------------------------------------------------------
\* d.get(key, default)
GetOr(d, key, default) == IF key \in DOMAIN d THEN d[key] ELSE default

\* {k: v for k, v in b.items() if k != "entries"}
WithoutEntries(b) == [k \in DOMAIN b \ {"entries"} |-> b[k]]

\* save_state (lines 222-252) writes <slug>_state.json.  Of its contents
\* the model keeps "cross_agent_challenges" (as the targets the trigger
\* engine reads from it), "self_domain_scores", "last_reputation",
\* "hourly_challenge_count" and "audit_batches", the batches without their
\* entries, and next to them (not in the file) the batcher's two counters
\* at the time of the save.
save_state(w) ==
    [w EXCEPT !.state_file =
        [exists |-> TRUE,
         cross_agent_challenges |-> w.agent.challenged_peers,
         self_domain_scores |-> w.agent.self_domain_scores,
         last_reputation |-> w.agent.last_reputation,
         hourly_challenge_count |-> w.agent.hourly_challenge_count,
         audit_batches |-> [i \in 1..Len(w.flushed_batches) |->
                               WithoutEntries(w.flushed_batches[i])],
         entries_logged_at_save |-> w.total_entries_logged,
         batches_stored_at_save |-> w.total_batches_stored]]

\* no state file has been written
NoStateFile ==
    [exists |-> FALSE, cross_agent_challenges |-> {},
     self_domain_scores |-> <<>>, last_reputation |-> 0,
     hourly_challenge_count |-> 0, audit_batches |-> <<>>,
     entries_logged_at_save |-> 0, batches_stored_at_save |-> 0]

\* The state file is read only by load_state, when the agent starts.  Where
\* the agent is never started again its contents are left out of the state.
WithoutAttempts(w) ==
    [w EXCEPT !.task = [t \in Tasks |-> [w.task[t] EXCEPT !.c.attempts = <<>>]],
              !.returned = IF "attempts" \in DOMAIN w.returned
                           THEN [w.returned EXCEPT !.attempts = <<>>]
                           ELSE w.returned]

\* The attempts are read by no code either, and are kept only where the
\* surroundings ask for them.
Kept(env, w) ==
    LET w1 == IF env.restarts THEN w ELSE [w EXCEPT !.state_file = NoStateFile]
    IN  IF env.history THEN w1 ELSE WithoutAttempts(w1)

\* sum(b.get("entry_count", 0) for b in saved_batches)
RECURSIVE SumEntryCount(_)
SumEntryCount(saved_batches) ==
    IF saved_batches = <<>> THEN 0
    ELSE GetOr(saved_batches[1], "entry_count", 0)
            + SumEntryCount(Tail(saved_batches))

\* load_state lines 255-294: without a state file nothing is loaded; with
\* one, the agent's fields are those of the file, and with a batcher and a
\* saved batch the saved batches replace flushed_batches and the counters
\* are recomputed from them
load_state(w) ==
    IF ~w.state_file.exists THEN w
    ELSE LET data == w.state_file
             saved_batches == data.audit_batches
             w1 == [w EXCEPT
                      !.agent.challenged_peers = data.cross_agent_challenges,
                      !.agent.self_domain_scores = data.self_domain_scores,
                      !.agent.last_reputation = data.last_reputation,
                      !.agent.hourly_challenge_count = data.hourly_challenge_count]
         IN  IF saved_batches = <<>> \/ ~w.has_client THEN w1
             ELSE [w1 EXCEPT !.flushed_batches = saved_batches,
                             !.total_batches_stored = Len(saved_batches),
                             !.total_entries_logged = SumEntryCount(saved_batches)]

\* _flush_audit line 1062 formats batch.get('tx_signature', 'None')[:20]:
\* for a batch whose tx_signature is None this raises TypeError
FlushLogRaises(ret) == ret # <<>> /\ ret[1].tx_signature = None

\* _flush_audit lines 1052-1072: after flush, save the state and sleep; if
\* the batch was not stored, line 1062 raises, the state is not saved and
\* the loop sleeps in its except clause
LoopAfterFlush(w) ==
    IF FlushLogRaises(w.returned.ret)
    THEN [w EXCEPT !.task["loop"].at = "error_sleep",
                   !.task["loop"].c = NoCall]
    ELSE [save_state(w) EXCEPT !.task["loop"].at = "sleep",
                               !.task["loop"].c = NoCall]

\* _flush_audit lines 1049-1052: after retry_failed_batches, flush(force=True)
LoopAfterRetry(w) ==
    LET w1 == FlushBegin(w, "loop", TRUE)
    IN  IF w1.task["loop"].at = "returned" THEN LoopAfterFlush(w1) ELSE w1

\* a call that has returned hands control back to its caller, which runs on
\* to its next await
Settle(w, t) ==
    IF w.task[t].at # "returned" THEN w
    ELSE IF t = "api"
         THEN [w EXCEPT !.task[t].at = "idle", !.task[t].c = NoCall]
    ELSE IF w.task[t].c.op = "retry" THEN LoopAfterRetry(w)
    ELSE LoopAfterFlush(w)

\* _flush_audit lines 1038-1066: one turn of the while loop begins; with
\* no batcher (line 1040) it saves the state and sleeps
LoopCycle(w) ==
    IF ~w.has_client
    THEN [save_state(w) EXCEPT !.task["loop"].at = "sleep"]
    ELSE Settle(RetryBegin(w, "loop"), "loop")

\* _flush_audit lines 1037 and 1067-1072, on task.cancel(): the sleep before
\* the first cycle is outside the try and the sleep of the except clause is
\* past the handlers, so nothing is saved there; anywhere
\* else the CancelledError passes through flush / retry_failed_batches (it is
\* not an Exception) and the loop saves the state and leaves
LoopCancelled(w) ==
    LET w1 == IF w.task["loop"].at \in {"start", "error_sleep"} THEN w
              ELSE save_state(w)
    IN  [w1 EXCEPT !.task["loop"].at = "exited", !.task["loop"].c = NoCall]

\* _shutdown_agent: every task is cancelled and awaited
shutdown_agent(w) == [LoopCancelled(w) EXCEPT !.stopped = TRUE]


\* _init_agent lines 1187-1323 in a new process: a new AgentState and a new
\* QuestionSelector; with a client, a new batcher and the AGENT_REGISTERED
\* entry logged; the saved state loaded (its batches only into a batcher);
\* the tasks created.  The ledger, the batch files and the state file are
\* those the earlier process left.
init_agent(w) ==
    LET w1 == [w EXCEPT !.agent = NewAgentState,
                        !.pending_entries = <<>>,
                        !.flushed_batches = <<>>,
                        !.total_entries_logged = 0,
                        !.total_batches_stored = 0,
                        !.merkle_batch_cache = None,
                        !.last_stored = NoStore,
                        !.task = [t \in Tasks |->
                                    [at |-> IF t = "loop" THEN "start" ELSE "idle",
                                     c |-> NoCall]],
                        !.stopped = FALSE]
        w2 == load_state(IF w.has_client THEN LogEntry(w1) ELSE w1)
    IN  [w2 EXCEPT !.returned =
            [op |-> "restart", restored |-> w2.flushed_batches # <<>>]]

\* ------------------------------------------------------------------------
\* AuditBatcher.get_proof_for_entry
\* ------------------------------------------------------------------------
\* list.index(x), 0-based, for x in the list
IndexOf(seq, x) == (CHOOSE i \in 1..Len(seq) : seq[i] = x /\ \A j \in 1..(i - 1) : seq[j] # x) - 1

\* x in list
Has(seq, x) == \E i \in 1..Len(seq) : seq[i] = x

\* what a call gives: a returned value (<<>> for None) or a raised exception
Returns(value) == [out |-> value, raised |-> ""]
Raises(exception) == [out |-> <<>>, raised |-> exception]

\* lines 446-456: the for loop over flushed_batches from position k on;
\* batch["entries"] raises KeyError for a batch without that key
RECURSIVE ProofInBatches(_, _, _)
ProofInBatches(batches, k, entry_hash) ==
    IF k > Len(batches) THEN Returns(<<>>)
    ELSE LET batch == batches[k]
         IN  IF "entries" \notin DOMAIN batch THEN Raises("KeyError")
             ELSE LET batch_hashes == [i \in 1..Len(batch.entries) |->
                                          batch.entries[i].entry_hash]
                  IN  IF Has(batch_hashes, entry_hash)
                      THEN Returns(<<[batch_index  |-> batch.batch_index,
                                      merkle_root  |-> batch.merkle_root,
                                      proof        |-> compute_merkle_proof(
                                                           batch_hashes,
                                                           IndexOf(batch_hashes, entry_hash)),
                                      tx_signature |-> batch.tx_signature,
                                      on_chain     |-> batch.tx_signature # None]>>)
                      ELSE ProofInBatches(batches, k + 1, entry_hash)

get_proof_for_entry(w, entry_hash) ==
    LET hashes == EntryHashes(w.pending_entries)
    IN  IF Has(hashes, entry_hash)
        THEN Returns(<<[batch       |-> "pending",
                        merkle_root |-> compute_merkle_root(hashes),
                        proof       |-> compute_merkle_proof(
                                            hashes, IndexOf(hashes, entry_hash)),
                        on_chain    |-> FALSE]>>)
        ELSE ProofInBatches(w.flushed_batches, 1, entry_hash)

\* ------------------------------------------------------------------------
\* QuestionSelector (question_pools.py)
\* ------------------------------------------------------------------------
\* the number of questions of the pool, and of selections asked for a peer
PoolSize == 3
MaxSelections == PoolSize + 2

\* the names of the peers questions are selected for
Peers == {"alpha", "beta"}

\* the domains of QUESTION_POOLS, in the dict's order
PoolDomains == <<"defi", "solana", "security", "general">>

\* ALL_QUESTIONS: the questions of all domains, each with its id (the ids
\* of the pool are pairwise different)
ALL_QUESTIONS ==
    [i \in 1..PoolSize |->
        [id |-> i, domain |-> PoolDomains[((i - 1) % Len(PoolDomains)) + 1]]]

\* PERSONALITY_WEIGHTS, in hundredths
PERSONALITY_WEIGHTS ==
    [defi     |-> [defi |-> 50, solana |-> 15, security |-> 20, general |-> 15],
     security |-> [defi |-> 15, solana |-> 20, security |-> 50, general |-> 15],
     solana   |-> [defi |-> 15, solana |-> 50, security |-> 20, general |-> 15],
     general  |-> [defi |-> 25, solana |-> 25, security |-> 25, general |-> 25]]

\* the selector's personality
personality == "defi"

\* __init__ line 212: self._weights
Weights == GetOr(PERSONALITY_WEIGHTS, personality, PERSONALITY_WEIGHTS["general"])

\* no select_question has returned
NoSelection == [peer |-> "", id |-> 0]

\* a candidate list that leaves the history out: every question
Unasked_any(history, peer_name) == ALL_QUESTIONS

\* lines 221-224: the questions not yet asked of the peer
Unasked(history, peer_name) ==
    LET asked == GetOr(history, peer_name, {})
    IN  SelectSeq(ALL_QUESTIONS, LAMBDA q : q.id \notin asked)

\* lines 227-230: the candidates, the whole pool when none is left
Candidates(history, peer_name) ==
    IF Unasked(history, peer_name) = <<>> THEN ALL_QUESTIONS
    ELSE Unasked(history, peer_name)

\* lines 233-240: random.choices can give any candidate of positive weight
Choosable(history, peer_name) ==
    {i \in 1..Len(Candidates(history, peer_name)) :
        GetOr(Weights, Candidates(history, peer_name)[i].domain, 10) > 0}

\* select_question when random.choices gives the candidate at position pick:
\* the new _peer_history and the question returned
select_question(history, peer_name, pick) ==
    LET history1 == IF Unasked(history, peer_name) = <<>>
                    THEN (peer_name :> {}) @@ history
                    ELSE history
        question == Candidates(history, peer_name)[pick]
        history2 == IF peer_name \notin DOMAIN history1
                    THEN (peer_name :> {}) @@ history1
                    ELSE history1
    IN  [peer_history |-> [history2 EXCEPT ![peer_name] = @ \cup {question.id}],
         selected     |-> question]

\* ------------------------------------------------------------------------
\* _get_weakest_domain (multi_main.py)
\* ------------------------------------------------------------------------
RECURSIVE SumOf(_)
SumOf(scores) == IF scores = <<>> THEN 0 ELSE Head(scores) + SumOf(Tail(scores))

\* an average kept as the pair it is the quotient of: for scores of this
\* size the float quotients compare as the fractions do
Average(scores) == [sum |-> SumOf(scores), n |-> Len(scores)]
Less(a, b) == a.sum * b.n < b.sum * a.n

\* an average over all the scores of a domain
WindowAverage_whole(scores) == Average(scores)

\* line 912: sum(scores[-5:]) / len(scores[-5:])
WindowAverage(scores) == Average(LastN(scores, 5))

\* A score map is the dict's items in its order: a sequence of
\* [domain, scores].  Lines 906-915; <<>> stands for None, <<d>> for d.
get_weakest_domain(self_scores, peer_scores) ==
    LET source == IF self_scores # <<>> THEN self_scores ELSE peer_scores
        scored == SelectSeq(source, LAMBDA item : item.scores # <<>>)
        avg_scores == [i \in 1..Len(scored) |->
                          [domain |-> scored[i].domain,
                           avg    |-> WindowAverage(scored[i].scores)]]
        \* min(avg_scores, key=avg_scores.get): the first key of the least value
        least == CHOOSE i \in 1..Len(avg_scores) :
                    /\ \A j \in 1..Len(avg_scores) :
                          ~Less(avg_scores[j].avg, avg_scores[i].avg)
                    /\ \A j \in 1..(i - 1) :
                          Less(avg_scores[i].avg, avg_scores[j].avg)
    IN  IF source = <<>> THEN <<>>
        ELSE IF avg_scores = <<>> THEN <<>>
        ELSE <<avg_scores[least].domain>>
\* ------------------------------------------------------------------------
\* Initial states
\* ------------------------------------------------------------------------
\* AuditBatcher.__init__ (lines 186-203) with a client that has an empty
\* cache, an empty storage directory and ledger, the loop task created and
\* not yet past its first sleep
FreshWorld ==
    [pending_entries |-> <<>>, flushed_batches |-> <<>>,
     total_entries_logged |-> 0, total_batches_stored |-> 0,
     has_client |-> TRUE, merkle_batch_cache |-> None, last_stored |-> NoStore,
     ledger |-> <<>>,
     external |-> 0, disk |-> <<>>, state_file |-> NoStateFile,
     task |-> [t \in Tasks |->
                  [at |-> IF t = "loop" THEN "start" ELSE "idle", c |-> NoCall]],
     returned |-> NoReturn, stopped |-> FALSE, logged |-> 0,
     agent |-> NewAgentState]

\* _init_agent lines 1276-1292 after a registration that gave a client: the
\* batcher is made and the AGENT_REGISTERED entry logged
Registered == LogEntry(FreshWorld)

\* _init_agent after a registration that gave none: no batcher is made
Unregistered == [FreshWorld EXCEPT !.has_client = FALSE]

\* the batcher's variables are those of the world w
IsWorld(w) ==
    /\ pending_entries = w.pending_entries
    /\ flushed_batches = w.flushed_batches
    /\ total_entries_logged = w.total_entries_logged
    /\ total_batches_stored = w.total_batches_stored
    /\ has_client = w.has_client
    /\ merkle_batch_cache = w.merkle_batch_cache
    /\ last_stored = w.last_stored
    /\ ledger = w.ledger
    /\ external = w.external
    /\ disk = w.disk
    /\ state_file = w.state_file
    /\ task = w.task
    /\ returned = w.returned
    /\ stopped = w.stopped
    /\ logged = w.logged

\* the agent with its batcher, and the agent without one
BatcherStart == IsWorld(Registered)
BatcherAbsent == IsWorld(Unregistered)

MerkleIdle ==
    /\ m_hashes = <<>>
    /\ m_index = 0
    /\ m_root = EmptyRoot
    /\ m_proof = <<>>
    /\ m_verified = FALSE
    /\ m_other = EmptyRoot
    /\ m_other_verified = FALSE
    /\ m_other_root = EmptyRoot
    /\ m_done = FALSE

\* AgentState's defaults (lines 191-198); the clock reads 0
TriggerStart ==
    /\ now = 0
    /\ urgent_cooldowns = <<>>
    /\ hourly_challenge_count = 0
    /\ hourly_challenge_reset_ts = 0
    /\ last_reputation = 5000
    /\ reputation_score = 5000
    /\ online_peers = {}
    /\ challenged_peers = {}
    /\ self_domain_scores = <<>>
    /\ result = [fired |-> FALSE, category |-> <<"no call", "">>]
    /\ last_fired = <<>>
    /\ fired_since_reset = 0
    /\ fired_times = <<>>

\* no pass of the challenge loop has run
NoTick ==
    [outcome |-> "none", new_peer |-> "", online |-> {}, target |-> "",
     raised |-> ""]

\* the callers of _discover_peers: the challenge loop (multi_main.py line
\* 478) and the GET /peers endpoint (line 1527)
Discoverers == {"loop", "request"}

\* nobody is inside _discover_peers
NoDiscovery == [d \in Discoverers |-> 0]

TickIdle ==
    /\ peers = <<>>
    /\ loop_idx = 0
    /\ discovery = NoDiscovery
    /\ tick = NoTick

\* QuestionSelector.__init__
SelectorStart ==
    /\ peer_history = <<>>
    /\ selected = NoSelection
    /\ asked_log = [p \in Peers |-> <<>>]

WeakestIdle ==
    /\ wd_self_scores = <<>>
    /\ wd_peer_scores = <<>>
    /\ wd_result = <<>>
    /\ wd_done = FALSE
    /\ wd_scored = NoneScored

Init ==
    /\ BatcherStart \/ BatcherAbsent
    /\ MerkleIdle
    /\ TriggerStart
    /\ SelectorStart
    /\ TickIdle
    /\ WeakestIdle

\* ------------------------------------------------------------------------
\* Actions of the batcher, its tasks and the ledger
\* ------------------------------------------------------------------------
\* some task calls batcher.log(...)
Log ==
    /\ ~stopped
    /\ has_client
    /\ logged < MaxLog
    /\ Becomes(LogEntry(World))
    /\ UNCHANGED <<merkle_vars, trigger_vars, selector_vars, weakest_vars, tick_vars>>

\* the loop task is between two cycles
LoopResting(w) ==
    w.task["loop"].at \in {"start", "sleep", "error_sleep", "exited"}

\* the loop's sleep is over: it retries the failed batches, then flushes.
\* Without overlap a call starts only when no other call is under way.
LoopWake(env) ==
    /\ ~stopped
    /\ task["loop"].at \in {"start", "sleep", "error_sleep"}
    /\ env.overlap \/ task["api"].at = "idle"
    /\ Becomes(Kept(env, LoopCycle(World)))
    /\ UNCHANGED <<merkle_vars, trigger_vars, selector_vars, weakest_vars, tick_vars>>

\* a request to one of the diagnostic endpoints is served: POST
\* /merkle-flush-test (followed while fewer than MaxLog entries have been
\* logged; without a batcher it answers "no audit batcher") or POST
\* /merkle-test (followed while the ledger holds fewer than MaxExternal
\* roots that are no batch of this batcher)
ApiCall(env) ==
    /\ ~stopped
    /\ has_client
    /\ task["api"].at = "idle"
    /\ env.overlap \/ LoopResting(World)
    /\ \E call \in Requests :
          /\ call = "merkle_test" => external < MaxExternal
          /\ call = "merkle_flush_test" => logged < MaxLog
          /\ Becomes(Kept(env,
                Settle(IF call = "merkle_test"
                       THEN merkle_test(World, "api")
                       ELSE merkle_flush_test(World, "api"),
                       "api")))
    /\ UNCHANGED <<merkle_vars, trigger_vars, selector_vars, weakest_vars, tick_vars>>

\* The ledger's answer to a submit under index idx (spec sections 4.2, 6):
\* it stores the root only under its next free index, rejects any other
\* index with the index-collision error, and may fail in the other ways.
LedgerAnswers(w, idx, env) ==
    env.faults
        \cup (IF idx = Len(w.ledger) THEN {"ok"} ELSE {"collision"})

\* the read of the ledger's summary a task waits for is answered
ReadReturn(env) ==
    \E t \in Tasks :
        /\ task[t].at = "read"
        /\ \E rv \in LedgerReads(World, env) :
              Becomes(Kept(env, ReadAnswered(World, t, rv)))
        /\ UNCHANGED <<merkle_vars, trigger_vars, selector_vars, weakest_vars, tick_vars>>

\* the rpc a task waits for returns
RpcReturn(env) ==
    \E t \in Tasks :
        /\ task[t].at = "rpc"
        /\ \E outcome \in LedgerAnswers(World, task[t].c.idx, env) :
              Becomes(Kept(env,
                  Settle(CASE task[t].c.op = "flush"
                                -> FlushRpcReturn(World, t, outcome)
                           [] task[t].c.op = "retry"
                                -> RetryRpcReturn(World, t, outcome)
                           [] OTHER -> TestRpcReturn(World, t, outcome), t)))
        /\ UNCHANGED <<merkle_vars, trigger_vars, selector_vars, weakest_vars, tick_vars>>

\* the asyncio.sleep of a task after an attempt is over
Wake(env) ==
    \E t \in Tasks :
        /\ task[t].at = "backoff"
        /\ Becomes(Kept(env,
              Settle(IF task[t].c.op = "flush"
                     THEN FlushWake(World, t)
                     ELSE RetryWake(World, t), t)))
        /\ UNCHANGED <<merkle_vars, trigger_vars, selector_vars, weakest_vars, tick_vars>>

\* another writer (an earlier deployment of the same agent) stores a root:
\* the ledger's next index moves on without this client's cache knowing
ExternalCommit ==
    /\ ~stopped
    /\ external < MaxExternal
    /\ Becomes([World EXCEPT
           !.ledger = Append(@, [merkle_root |-> EmptyRoot, entries_count |-> 0]),
           !.external = @ + 1])
    /\ UNCHANGED <<merkle_vars, trigger_vars, selector_vars, weakest_vars, tick_vars>>

\* the gateway shuts the agent down (no request is being served any more)
Shutdown(env) ==
    /\ ~stopped
    /\ task["api"].at = "idle"
    /\ Becomes(Kept(env, shutdown_agent(World)))
    /\ UNCHANGED <<merkle_vars, trigger_vars, selector_vars, weakest_vars, tick_vars>>

Next ==
    \/ Log
    \/ LoopWake(Serial)
    \/ ApiCall(Serial)
    \/ ReadReturn(Serial)
    \/ RpcReturn(Serial)
    \/ Wake(Serial)
    \/ ExternalCommit
    \/ Shutdown(Serial)

\* One agent's batcher and its callers.  The calls of flush and
\* retry_failed_batches follow one another (spec section 3: the batcher has
\* one owner); log runs at any time, also while a call waits.
Spec == Init /\ [][Next]_vars

NextPermanent ==
    \/ Log
    \/ LoopWake(Failing)
    \/ ApiCall(Failing)
    \/ ReadReturn(Failing)
    \/ RpcReturn(Failing)
    \/ Wake(Failing)
    \/ ExternalCommit
    \/ Shutdown(Failing)

\* The same agent on a ledger that also refuses submits for good.
SpecPermanent == Init /\ [][NextPermanent]_vars

\* ------------------------------------------------------------------------
\* The batcher used on its own
\* ------------------------------------------------------------------------
\* the owner of a batcher calls flush() itself, forced or not, as the
\* class's usage shows (merkle_audit.py lines 170-178)
FlushCall(env) ==
    /\ ~stopped
    /\ has_client
    /\ task["api"].at = "idle"
    /\ \E force \in BOOLEAN :
          Becomes(Kept(env, Settle(FlushBegin(World, "api", force), "api")))
    /\ UNCHANGED <<merkle_vars, trigger_vars, selector_vars, weakest_vars, tick_vars>>

InitDirect ==
    /\ BatcherStart
    /\ MerkleIdle
    /\ TriggerStart
    /\ SelectorStart
    /\ TickIdle
    /\ WeakestIdle

NextDirect ==
    \/ Log
    \/ FlushCall(Serial)
    \/ ReadReturn(Serial)
    \/ RpcReturn(Serial)
    \/ Wake(Serial)
    \/ ExternalCommit

\* A batcher whose owner logs and flushes, with no _flush_audit loop and no
\* endpoint beside it.
SpecDirect == InitDirect /\ [][NextDirect]_vars


\* ------------------------------------------------------------------------
\* The batcher with overlapping calls
\* ------------------------------------------------------------------------
InitOverlap ==
    /\ BatcherStart
    /\ MerkleIdle
    /\ TriggerStart
    /\ SelectorStart
    /\ TickIdle
    /\ WeakestIdle

NextOverlap ==
    \/ Log
    \/ LoopWake(Overlapping)
    \/ ApiCall(Overlapping)
    \/ ReadReturn(Overlapping)
    \/ RpcReturn(Overlapping)
    \/ Wake(Overlapping)

\* The loop and a request use the batcher at the same time (the
\* /merkle-flush-test endpoint is served while _flush_audit runs); the
\* node answers every read with the ledger's count and every submit by
\* its index alone.
SpecOverlap == InitOverlap /\ [][NextOverlap]_vars

\* ------------------------------------------------------------------------
\* The agent across restarts
\* ------------------------------------------------------------------------
\* the process is started again after a shutdown (a redeploy): what the
\* old process held in memory is gone, the clock, the reputation on the
\* ledger and the configured peers are as they were
Restart ==
    /\ stopped
    /\ has_client => logged < MaxLog
    /\ LET w == init_agent(World)
       IN  Becomes(w) /\ BecomesAgent(w)
    /\ discovery' = NoDiscovery
    /\ UNCHANGED <<now, reputation_score, result, last_fired,
                   fired_since_reset, fired_times, selected, asked_log,
                   peers, tick>>
    /\ UNCHANGED <<merkle_vars, weakest_vars>>

\* the entry hashes a caller asks a proof for: those of the entries the
\* model logs, and one that no entry has
HashesAsked == {ToHex(<<1>>), ToHex(<<2>>), ToHex(<<3>>)}

\* a caller asks the batcher for the proof of an entry hash
ProofQuery ==
    /\ ~stopped
    /\ \E entry_hash \in HashesAsked :
          LET r == get_proof_for_entry(World, entry_hash)
          IN  Becomes([World EXCEPT !.returned =
                  [op |-> "proof", entry_hash |-> entry_hash,
                   out |-> r.out, raised |-> r.raised]])
    /\ UNCHANGED <<merkle_vars, trigger_vars, selector_vars, weakest_vars, tick_vars>>

InitRestart ==
    /\ BatcherStart \/ BatcherAbsent
    /\ MerkleIdle
    /\ TriggerStart
    /\ SelectorStart
    /\ TickIdle
    /\ WeakestIdle

NextRestart ==
    \/ Log
    \/ LoopWake(Steady)
    \/ ApiCall(Steady)
    \/ ReadReturn(Steady)
    \/ RpcReturn(Steady)
    \/ Wake(Steady)
    \/ Shutdown(Steady)
    \/ Restart
    \/ ProofQuery

\* One agent that is shut down and started again, with the state file and
\* the batch files kept in between.
SpecRestart == InitRestart /\ [][NextRestart]_vars

\* ------------------------------------------------------------------------
\* The Merkle functions on their own
\* ------------------------------------------------------------------------
SeqsUpTo(S, n) == UNION {[1..k -> S] : k \in 0..n}

\* any list of entry hashes (digests as hexdigest() writes them), any index
\* up to one past its end and any hex string to put in the place of the
\* entry's hash
MerkleStart ==
    /\ m_hashes \in SeqsUpTo(EntryDigests, MaxHashes)
    /\ m_index \in 0..Len(m_hashes)
    /\ m_root = EmptyRoot
    /\ m_proof = <<>>
    /\ m_verified = FALSE
    /\ m_other \in LeafHashes
    /\ m_other_verified = FALSE
    /\ m_other_root = EmptyRoot
    /\ m_done = FALSE

InitMerkle ==
    /\ MerkleStart
    /\ BatcherAbsent
    /\ TriggerStart
    /\ SelectorStart
    /\ TickIdle
    /\ WeakestIdle

\* root, proof of m_index and the proof's verification for hashes[m_index]
\* (an index past the end has no entry to verify)
MerkleApply ==
    /\ ~m_done
    /\ m_done' = TRUE
    /\ m_root' = compute_merkle_root(m_hashes)
    /\ m_proof' = compute_merkle_proof(m_hashes, m_index)
    /\ m_verified' = IF m_index < Len(m_hashes)
                     THEN verify_merkle_proof(m_hashes[m_index + 1], m_proof', m_root')
                     ELSE FALSE
    /\ m_other_verified' = verify_merkle_proof(m_other, m_proof', m_root')
    /\ m_other_root' = IF m_index < Len(m_hashes)
                       THEN compute_merkle_root(
                                [m_hashes EXCEPT ![m_index + 1] = m_other])
                       ELSE m_root'
    /\ UNCHANGED <<m_hashes, m_index, m_other, batcher_vars, trigger_vars,
                   selector_vars, weakest_vars, tick_vars>>

NextMerkle == MerkleApply

SpecMerkle == InitMerkle /\ [][NextMerkle]_vars

\* ------------------------------------------------------------------------
\* Adaptive trigger engine: _should_challenge_urgently
\* ------------------------------------------------------------------------
URGENT_COOLDOWN_SECONDS == 600
MAX_URGENT_PER_HOUR == 8
HOUR_SECONDS == 3600
REPUTATION_DROP == 200
LOW_SCORE_THRESHOLD == 55
VARIANCE_SWING == 10

\* the clock readings of the model are multiples of ClockStep seconds
ClockStep == URGENT_COOLDOWN_SECONDS

\* the domains with self-evaluation scores, in the dict's iteration order
DomainOrder == <<"defi">>

\* A trigger category is a pair: <<"reputation_drop", "">>, <<"new_peer", "">>,
\* <<"low_self_score", domain>>, <<"score_variance", domain>>
\* (the strings "low_self_score:<domain>" and "score_variance:<domain>").
Category(kind, domain) == <<kind, domain>>

\* the trigger engine's variables as a record
Engine ==
    [now |-> now, urgent_cooldowns |-> urgent_cooldowns,
     hourly_challenge_count |-> hourly_challenge_count,
     hourly_challenge_reset_ts |-> hourly_challenge_reset_ts,
     last_reputation |-> last_reputation, reputation_score |-> reputation_score,
     online_peers |-> online_peers, challenged_peers |-> challenged_peers,
     self_domain_scores |-> self_domain_scores,
     result |-> result]

\* lines 932-935: reset the hourly budget if needed
ResetBudget(e) ==
    IF e.now - e.hourly_challenge_reset_ts >= HOUR_SECONDS
    THEN [e EXCEPT !.hourly_challenge_count = 0,
                   !.hourly_challenge_reset_ts = e.now]
    ELSE e

\* a _check_cooldown with one timestamp for all categories: the oldest
check_cooldown_shared(e, category) ==
    LET times == {e.urgent_cooldowns[c] : c \in DOMAIN e.urgent_cooldowns}
        last  == IF times = {} THEN 0
                 ELSE CHOOSE x \in times : \A y \in times : x <= y
    IN  (e.now - last) >= URGENT_COOLDOWN_SECONDS

\* a _check_cooldown that is over only after more than the cooldown
check_cooldown_strict(e, category) ==
    LET last == IF category \in DOMAIN e.urgent_cooldowns
                THEN e.urgent_cooldowns[category] ELSE 0
    IN  (e.now - last) > URGENT_COOLDOWN_SECONDS

\* _check_cooldown: a category never fired counts as fired at 0.0
check_cooldown(e, category) ==
    LET last == IF category \in DOMAIN e.urgent_cooldowns
                THEN e.urgent_cooldowns[category] ELSE 0
    IN  (e.now - last) >= URGENT_COOLDOWN_SECONDS

\* a _fire_trigger that consumes no budget
fire_trigger_free(e, category) ==
    [e EXCEPT !.urgent_cooldowns = (category :> e.now) @@ @,
              !.result = [fired |-> TRUE, category |-> category]]

\* _fire_trigger
fire_trigger(e, category) ==
    [e EXCEPT !.urgent_cooldowns = (category :> e.now) @@ @,
              !.hourly_challenge_count = @ + 1,
              !.result = [fired |-> TRUE, category |-> category]]

\* return False, ""
NoTrigger(e) == [e EXCEPT !.result = [fired |-> FALSE, category |-> <<"", "">>]]

\* the domains that have scores, in iteration order
ScoredDomains(e) ==
    SelectSeq(DomainOrder, LAMBDA d : d \in DOMAIN e.self_domain_scores)

\* a trigger 3 that does not look at its category's cooldown
LowSelfScore_any_cooldown(e, d) ==
    LET scores == e.self_domain_scores[d]
    IN  /\ scores # <<>>
        /\ Len(scores) >= 2
        /\ scores[Len(scores)] < LOW_SCORE_THRESHOLD

\* line 980: the condition of trigger 3 for a domain
LowSelfScore(e, d) ==
    LET scores == e.self_domain_scores[d]
    IN  /\ scores # <<>>
        /\ Len(scores) >= 2
        /\ scores[Len(scores)] < LOW_SCORE_THRESHOLD
        /\ check_cooldown(e, Category("low_self_score", d))

\* lines 992-994: the condition of trigger 4 for a domain
ScoreVariance(e, d) ==
    LET scores == e.self_domain_scores[d]
        delta  == scores[Len(scores)] - scores[Len(scores) - 1]
    IN  /\ Len(scores) >= 3
        /\ check_cooldown(e, Category("score_variance", d))
        /\ (IF delta < 0 THEN -delta ELSE delta) >= VARIANCE_SWING

\* lines 930-1005
should_challenge_urgently(e0) ==
    LET e    == ResetBudget(e0)
        \* the domains for which a for loop would return, in iteration order
        low  == SelectSeq(ScoredDomains(e), LAMBDA d : LowSelfScore(e, d))
        vari == SelectSeq(ScoredDomains(e), LAMBDA d : ScoreVariance(e, d))
    IN  IF e.hourly_challenge_count >= MAX_URGENT_PER_HOUR THEN NoTrigger(e)
        ELSE IF /\ e.last_reputation - e.reputation_score >= REPUTATION_DROP
                /\ check_cooldown(e, Category("reputation_drop", ""))
             THEN fire_trigger(e, Category("reputation_drop", ""))
        ELSE IF /\ check_cooldown(e, Category("new_peer", ""))
                /\ e.online_peers \ e.challenged_peers # {}
             THEN fire_trigger(e, Category("new_peer", ""))
        ELSE IF low # <<>>
             THEN fire_trigger(e, Category("low_self_score", low[1]))
        ELSE IF vari # <<>>
             THEN fire_trigger(e, Category("score_variance", vari[1]))
        ELSE NoTrigger(e)

\* What the other loops can leave in the fields the engine reads: nothing
\* that qualifies, each trigger's condition alone, and all of them at once.
Scenes ==
    {[reputation_score |-> 5000, online_peers |-> {},       scores |-> <<>>],
     [reputation_score |-> 4800, online_peers |-> {},       scores |-> <<>>],
     [reputation_score |-> 5000, online_peers |-> {"beta"}, scores |-> <<>>],
     [reputation_score |-> 5000, online_peers |-> {},       scores |-> <<50, 50>>],
     [reputation_score |-> 5000, online_peers |-> {},       scores |-> <<70, 70, 90>>],
     [reputation_score |-> 4800, online_peers |-> {"beta"}, scores |-> <<60, 60, 50>>]}

\* no call has returned in the last step
NoResult == [fired |-> FALSE, category |-> <<"no call", "">>]

\* A pass of the cross-agent challenge loop up to its first await (lines
\* 451-475): with a client, it calls _should_challenge_urgently, logs an
\* audit entry if a trigger fired and remembers the reputation.  Where the
\* firings are tracked, fired_times counts them by their time.
CallUrgent(tracked) ==
    LET e == should_challenge_urgently(Engine)
        reset == e.hourly_challenge_reset_ts # hourly_challenge_reset_ts
    IN  /\ has_client
        /\ urgent_cooldowns' = e.urgent_cooldowns
        /\ hourly_challenge_count' = e.hourly_challenge_count
        /\ hourly_challenge_reset_ts' = e.hourly_challenge_reset_ts
        /\ result' = e.result
        /\ last_fired' = IF e.result.fired
                         THEN (e.result.category :> now) @@ last_fired
                         ELSE last_fired
        /\ fired_since_reset' = (IF reset THEN 0 ELSE fired_since_reset)
                                  + (IF e.result.fired THEN 1 ELSE 0)
        /\ fired_times' = IF tracked /\ e.result.fired
                          THEN (now :> (GetOr(fired_times, now, 0) + 1)) @@ fired_times
                          ELSE fired_times
        /\ last_reputation' = reputation_score
        /\ Becomes(IF e.result.fired THEN LogEntry(World) ELSE World)
        /\ UNCHANGED <<now, reputation_score, online_peers,
                       challenged_peers, self_domain_scores>>
        /\ UNCHANGED <<merkle_vars, selector_vars, weakest_vars, tick_vars>>

\* time passes
Elapse ==
    /\ now + ClockStep <= MaxClock
    /\ now' = now + ClockStep
    /\ result' = NoResult
    /\ UNCHANGED <<urgent_cooldowns, hourly_challenge_count,
                   hourly_challenge_reset_ts, last_reputation, reputation_score,
                   online_peers, challenged_peers, self_domain_scores,
                   last_fired, fired_since_reset, fired_times>>
    /\ UNCHANGED <<batcher_vars, merkle_vars, selector_vars, weakest_vars, tick_vars>>

\* the other loops update the reputation, the peers and the scores
Observe ==
    /\ \E scene \in Scenes :
          /\ reputation_score' = scene.reputation_score
          /\ online_peers' = scene.online_peers
          /\ self_domain_scores' = IF scene.scores = <<>> THEN <<>>
                                   ELSE ("defi" :> scene.scores)
    /\ result' = NoResult
    /\ UNCHANGED <<now, urgent_cooldowns, hourly_challenge_count,
                   hourly_challenge_reset_ts, last_reputation, challenged_peers,
                   last_fired, fired_since_reset, fired_times>>
    /\ UNCHANGED <<batcher_vars, merkle_vars, selector_vars, weakest_vars, tick_vars>>

InitTrigger ==
    /\ TriggerStart
    /\ BatcherStart \/ BatcherAbsent
    /\ MerkleIdle
    /\ SelectorStart
    /\ TickIdle
    /\ WeakestIdle

NextTrigger ==
    \/ CallUrgent(FALSE)
    \/ Elapse
    \/ Observe

SpecTrigger == InitTrigger /\ [][NextTrigger]_vars

\* ------------------------------------------------------------------------
\* The trigger engine over time, under one unchanging scene
\* ------------------------------------------------------------------------
\* the reputation has dropped since it was last remembered, a peer not yet
\* challenged is online and the own scores are low and swinging
HourStart ==
    /\ now = 0
    /\ urgent_cooldowns = <<>>
    /\ hourly_challenge_count = 0
    /\ hourly_challenge_reset_ts = 0
    /\ last_reputation = 5000
    /\ reputation_score = 4800
    /\ online_peers = {"beta"}
    /\ challenged_peers = {}
    /\ self_domain_scores = ("defi" :> <<60, 60, 50>>)
    /\ result = NoResult
    /\ last_fired = <<>>
    /\ fired_since_reset = 0
    /\ fired_times = <<>>

InitHour ==
    /\ HourStart
    /\ BatcherStart \/ BatcherAbsent
    /\ MerkleIdle
    /\ SelectorStart
    /\ TickIdle
    /\ WeakestIdle

NextHour ==
    \/ CallUrgent(TRUE)
    \/ Elapse

SpecHour == InitHour /\ [][NextHour]_vars

\* ------------------------------------------------------------------------
\* The trigger engine under one unchanging scene, the clock read more often
\* ------------------------------------------------------------------------
\* the clock's readings here are multiples of ShortStep seconds
ShortStep == URGENT_COOLDOWN_SECONDS \div 2

\* less time passes than a cooldown lasts
ElapseShort ==
    /\ now + ShortStep <= MaxClock
    /\ now' = now + ShortStep
    /\ result' = NoResult
    /\ UNCHANGED <<urgent_cooldowns, hourly_challenge_count,
                   hourly_challenge_reset_ts, last_reputation, reputation_score,
                   online_peers, challenged_peers, self_domain_scores,
                   last_fired, fired_since_reset, fired_times>>
    /\ UNCHANGED <<batcher_vars, merkle_vars, selector_vars, weakest_vars, tick_vars>>

\* AgentState's defaults but for what the other loops have observed
InitCooldown ==
    /\ now = 0
    /\ urgent_cooldowns = <<>>
    /\ hourly_challenge_count = 0
    /\ hourly_challenge_reset_ts = 0
    /\ last_reputation = 5000
    /\ \E scene \in Scenes :
          /\ reputation_score = scene.reputation_score
          /\ online_peers = scene.online_peers
          /\ self_domain_scores = IF scene.scores = <<>> THEN <<>>
                                  ELSE ("defi" :> scene.scores)
    /\ challenged_peers = {}
    /\ result = NoResult
    /\ last_fired = <<>>
    /\ fired_since_reset = 0
    /\ fired_times = <<>>
    /\ BatcherStart \/ BatcherAbsent
    /\ MerkleIdle
    /\ SelectorStart
    /\ TickIdle
    /\ WeakestIdle

NextCooldown ==
    \/ CallUrgent(FALSE)
    \/ ElapseShort

SpecCooldown == InitCooldown /\ [][NextCooldown]_vars

\* ------------------------------------------------------------------------
\* The question selector on its own
\* ------------------------------------------------------------------------
\* a challenge loop asks for a question for a peer
SelectQuestion ==
    /\ \E peer_name \in Peers :
          /\ Len(asked_log[peer_name]) < MaxSelections
          /\ \E pick \in Choosable(peer_history, peer_name) :
                LET r == select_question(peer_history, peer_name, pick)
                IN  /\ peer_history' = r.peer_history
                    /\ selected' = [peer |-> peer_name, id |-> r.selected.id]
                    /\ asked_log' = [asked_log EXCEPT ![peer_name] =
                                         Append(@, r.selected.id)]
    /\ UNCHANGED <<batcher_vars, merkle_vars, trigger_vars, weakest_vars, tick_vars>>

InitSelector ==
    /\ SelectorStart
    /\ TickIdle
    /\ BatcherAbsent
    /\ MerkleIdle
    /\ TriggerStart
    /\ WeakestIdle

NextSelector == SelectQuestion

SpecSelector == InitSelector /\ [][NextSelector]_vars

\* ------------------------------------------------------------------------
\* _get_weakest_domain on its own
\* ------------------------------------------------------------------------
\* the domains, the lists of scores a domain can have (never empty: a
\* domain gets its list with its first score, lines 365-367 and 602-604)
\* and how many domains a map of own and of peer scores can have
DomainNames == {"defi", "solana", "security"}
ScoreLists == {<<40, 45>>, <<90, 92>>, <<70>>, <<10, 80, 80, 80, 80, 80>>}
MaxDomains == 3
MaxPeerDomains == 1

\* the score maps of up to n domains, in every order
ScoreMaps(n) ==
    {m \in SeqsUpTo([domain : DomainNames, scores : ScoreLists], n) :
        \A i, j \in 1..Len(m) : i # j => m[i].domain # m[j].domain}

WeakestStart ==
    /\ wd_self_scores \in ScoreMaps(MaxDomains)
    /\ wd_peer_scores \in ScoreMaps(MaxPeerDomains)
    /\ wd_result = <<>>
    /\ wd_done = FALSE
    /\ wd_scored = NoneScored

InitWeakest ==
    /\ WeakestStart
    /\ BatcherAbsent
    /\ MerkleIdle
    /\ TriggerStart
    /\ SelectorStart
    /\ TickIdle

WeakestApply ==
    /\ ~wd_done
    /\ wd_done' = TRUE
    /\ wd_result' = get_weakest_domain(wd_self_scores, wd_peer_scores)
    /\ UNCHANGED <<wd_self_scores, wd_peer_scores, wd_scored, batcher_vars,
                   merkle_vars,
                   trigger_vars, selector_vars, tick_vars>>

NextWeakest == WeakestApply

SpecWeakest == InitWeakest /\ [][NextWeakest]_vars
\* ------------------------------------------------------------------------
\* The cross-agent challenge loop (multi_main.py, lines 449-826) and the
\* discovery of peers (lines 390-430)
\* ------------------------------------------------------------------------
\* how many passes that take a peer are followed
MaxTicks == 3

\* line 480: the registry's online peers, in the registry's order (an
\* entry is made at a peer's first probe, and every caller probes the
\* peers in the order of state.peers)
OnlineInOrder(order, online) == SelectSeq(order, LAMBDA p : p \in online)

\* lines 962-973: the new_peer trigger names the first online peer of the
\* registry that is not the target of one of the last 20 challenges ("" when
\* there is none)
new_peer_name(order, e) ==
    LET fresh == SelectSeq(order,
                     LAMBDA p : p \in e.online_peers /\ p \notin e.challenged_peers)
    IN  IF fresh = <<>> THEN "" ELSE Head(fresh)

\* the peer the trigger engine's result names: that of new_peer when it is
\* the new_peer trigger that fired
FiredForPeer(order, before, after) ==
    IF after.result.fired /\ after.result.category = Category("new_peer", "")
    THEN new_peer_name(order, before)
    ELSE ""

\* the parameters of QuestionSelector.select_question besides self
\* (question_pools.py, line 216)
select_question_params == {"peer_name"}

\* the keywords the loop passes besides the peer's name, which it passes by
\* position (multi_main.py, lines 494-497)
loop_keywords == {"preferred_domain"}

\* Python binds a call's arguments before the body runs: a keyword that is
\* no parameter raises TypeError
BindArguments(params, keywords) ==
    IF keywords \subseteq params THEN "" ELSE "TypeError"

\* state.self_domain_scores as the items _get_weakest_domain goes through
RECURSIVE ItemsOf(_, _)
ItemsOf(scores, domains) ==
    IF domains = {} THEN <<>>
    ELSE LET d == CHOOSE x \in domains : TRUE
         IN  <<[domain |-> d, scores |-> scores[d]]>>
                 \o ItemsOf(scores, domains \ {d})

\* _discover_peers lines 399-430: the probe of peer has come back (GET
\* /health and, when that answered 200, GET /status: nothing is written
\* between the two) and the peer's entry of the registry is written, with
\* status "online" if it answered and "unreachable" or "error" if not
Probed(online, peer, answered) ==
    IF answered THEN online \cup {peer} ELSE online \ {peer}

\* The pass of an agent with a client and peers, from the top of the loop
\* to its first await (lines 451-478, and 392-399 of _discover_peers): the
\* trigger engine is asked, a firing is logged for audit, the reputation is
\* remembered, and the probe of the first peer is sent.  The pass holds the
\* trigger's reason (here the peer a new_peer firing names) as a local.
TickBegin ==
    /\ has_client
    /\ peers # <<>>
    /\ discovery["loop"] = 0
    /\ loop_idx < MaxTicks
    /\ logged < MaxLog
    /\ LET e == should_challenge_urgently(Engine)
           reset == e.hourly_challenge_reset_ts # hourly_challenge_reset_ts
       IN  /\ urgent_cooldowns' = e.urgent_cooldowns
           /\ hourly_challenge_count' = e.hourly_challenge_count
           /\ hourly_challenge_reset_ts' = e.hourly_challenge_reset_ts
           /\ result' = e.result
           /\ last_fired' = IF e.result.fired
                            THEN (e.result.category :> now) @@ last_fired
                            ELSE last_fired
           /\ fired_since_reset' = (IF reset THEN 0 ELSE fired_since_reset)
                                     + (IF e.result.fired THEN 1 ELSE 0)
           /\ Becomes(IF e.result.fired THEN LogEntry(World) ELSE World)
           /\ last_reputation' = reputation_score
           /\ discovery' = [discovery EXCEPT !["loop"] = 1]
           /\ tick' = [outcome |-> "discovering",
                       new_peer |-> FiredForPeer(peers, Engine, e),
                       online |-> {}, target |-> "", raised |-> ""]
    /\ UNCHANGED <<now, reputation_score, online_peers, challenged_peers,
                   self_domain_scores, fired_times, peers, loop_idx>>
    /\ UNCHANGED <<merkle_vars, weakest_vars, selector_vars>>

\* lines 480-500 and 823-826, the pass after _discover_peers has returned,
\* with the registry as it is then: without an online peer the pass logs
\* no_http_peers and sleeps; with one it takes the peer in turn, counts,
\* works out the weakest domain and asks the selector for a question.  An
\* exception is caught at the bottom of the loop, which logs it and sleeps.
\* Lines 501-822 run only when select_question has returned; of them the
\* model follows none beyond the targeting_peer log of line 514.
TickEnd(registry) ==
    LET online == OnlineInOrder(peers, registry)
        peer == online[(loop_idx % Len(online)) + 1]
        weakest == get_weakest_domain(
                       ItemsOf(self_domain_scores, DOMAIN self_domain_scores),
                       <<>>)
        raised == BindArguments(select_question_params, loop_keywords)
    IN  IF online = <<>>
        THEN /\ tick' = [tick EXCEPT !.outcome = "no_http_peers"]
             /\ UNCHANGED <<loop_idx, selector_vars>>
        ELSE /\ loop_idx' = loop_idx + 1
             /\ IF raised # ""
                THEN /\ tick' = [tick EXCEPT !.outcome = "error",
                                             !.online = registry,
                                             !.target = peer,
                                             !.raised = raised]
                     /\ UNCHANGED selector_vars
                ELSE \E pick \in Choosable(peer_history, peer) :
                       LET r == select_question(peer_history, peer, pick)
                       IN  /\ peer_history' = r.peer_history
                           /\ selected' = [peer |-> peer, id |-> r.selected.id]
                           /\ asked_log' = [asked_log EXCEPT ![peer] =
                                                Append(@, r.selected.id)]
                           /\ tick' = [tick EXCEPT !.outcome = "targeting_peer",
                                                   !.online = registry,
                                                   !.target = peer]

\* The probe the loop's pass waits for comes back: the peer's entry is
\* written and the next peer probed, or, after the last peer,
\* _discover_peers returns and the pass runs on to its end.
LoopProbe ==
    /\ discovery["loop"] > 0
    /\ \E answered \in BOOLEAN :
        LET k == discovery["loop"]
            registry == Probed(online_peers, peers[k], answered)
        IN  /\ online_peers' = registry
            /\ IF k < Len(peers)
               THEN /\ discovery' = [discovery EXCEPT !["loop"] = k + 1]
                    /\ UNCHANGED <<loop_idx, tick, selector_vars>>
               ELSE /\ discovery' = [discovery EXCEPT !["loop"] = 0]
                    /\ TickEnd(registry)
    /\ result' = NoResult
    /\ UNCHANGED <<now, urgent_cooldowns, hourly_challenge_count,
                   hourly_challenge_reset_ts, last_reputation, reputation_score,
                   challenged_peers, self_domain_scores, last_fired,
                   fired_since_reset, fired_times, peers>>
    /\ UNCHANGED <<batcher_vars, merkle_vars, weakest_vars>>

\* lines 1524-1527 and 392-399: GET /peers is asked and probes the first
\* peer (one request at a time is followed)
GetPeers ==
    /\ peers # <<>>
    /\ discovery["request"] = 0
    /\ discovery' = [discovery EXCEPT !["request"] = 1]
    /\ result' = NoResult
    /\ UNCHANGED <<now, urgent_cooldowns, hourly_challenge_count,
                   hourly_challenge_reset_ts, last_reputation, reputation_score,
                   online_peers, challenged_peers, self_domain_scores,
                   last_fired, fired_since_reset, fired_times, peers, loop_idx,
                   tick>>
    /\ UNCHANGED <<batcher_vars, merkle_vars, weakest_vars, selector_vars>>

\* The probe the request waits for comes back: the peer's entry is written
\* and the next peer probed, or, after the last peer, the request answers
\* with the registry's counts (lines 1528-1535).
RequestProbe ==
    /\ discovery["request"] > 0
    /\ \E answered \in BOOLEAN :
        LET k == discovery["request"]
        IN  /\ online_peers' = Probed(online_peers, peers[k], answered)
            /\ discovery' = [discovery EXCEPT !["request"] =
                                IF k < Len(peers) THEN k + 1 ELSE 0]
    /\ result' = NoResult
    /\ UNCHANGED <<now, urgent_cooldowns, hourly_challenge_count,
                   hourly_challenge_reset_ts, last_reputation, reputation_score,
                   challenged_peers, self_domain_scores, last_fired,
                   fired_since_reset, fired_times, peers, loop_idx, tick>>
    /\ UNCHANGED <<batcher_vars, merkle_vars, weakest_vars, selector_vars>>

\* an agent with both peers configured, after _init_agent: nobody probed,
\* the loop before its first pass
TickStart ==
    /\ peers \in {<<"alpha", "beta">>, <<"beta", "alpha">>}
    /\ loop_idx = 0
    /\ discovery = NoDiscovery
    /\ tick = NoTick

\* AgentState's defaults: an empty registry, no challenge on record
InitTick ==
    /\ now = 0
    /\ urgent_cooldowns = <<>>
    /\ hourly_challenge_count = 0
    /\ hourly_challenge_reset_ts = 0
    /\ last_reputation = 5000
    /\ reputation_score = 5000
    /\ online_peers = {}
    /\ challenged_peers = {}
    /\ self_domain_scores = <<>>
    /\ result = NoResult
    /\ last_fired = <<>>
    /\ fired_since_reset = 0
    /\ fired_times = <<>>
    /\ TickStart
    /\ BatcherStart
    /\ MerkleIdle
    /\ SelectorStart
    /\ WeakestIdle

NextTick ==
    \/ TickBegin
    \/ LoopProbe
    \/ GetPeers
    \/ RequestProbe
    \/ Elapse

SpecTick == InitTick /\ [][NextTick]_vars

\* ------------------------------------------------------------------------
\* retry_failed_batches on a backlog of batches whose commits failed
\* ------------------------------------------------------------------------
\* the largest backlog: two batches more than a call retries
MaxBacklog == 12

\* a retry call is followed if it starts with at most this many batches
\* of the backlog stored
MaxStoredAtCall == 1

\* a ledger whose reads are current and that fails transiently; the
\* attempts of the retry calls are kept
Backlog ==
    [overlap |-> FALSE, lag |-> FALSE, faults |-> {"transient"},
     restarts |-> FALSE, history |-> TRUE]

\* the batcher after n times an entry was logged and its forced flush
\* failed in all three attempts (flush lines 266-284 and 328-343)
RECURSIVE FailedBacklog(_, _)
FailedBacklog(w, n) ==
    IF n = 0 THEN w
    ELSE LET w1 == LogEntry(FailedBacklog(w, n - 1))
             batch_data == [NewBatch(w1) EXCEPT !.store_error = "transient"]
             w2 == save_batch(w1, batch_data)
         IN  [w2 EXCEPT !.flushed_batches = Append(@, batch_data),
                        !.total_batches_stored = @ + 1,
                        !.pending_entries = <<>>]

InitRetry ==
    /\ \E n \in 0..MaxBacklog : IsWorld(Kept(Backlog, FailedBacklog(Registered, n)))
    /\ MerkleIdle
    /\ TriggerStart
    /\ SelectorStart
    /\ TickIdle
    /\ WeakestIdle

\* a caller calls retry_failed_batches()
RetryCall(env) ==
    /\ ~stopped
    /\ task["api"].at = "idle"
    /\ Len(ledger) <= MaxStoredAtCall
    /\ Becomes(Kept(env, Settle(RetryBegin(World, "api"), "api")))
    /\ UNCHANGED <<merkle_vars, trigger_vars, selector_vars, weakest_vars, tick_vars>>

NextRetry ==
    \/ RetryCall(Backlog)
    \/ ReadReturn(Backlog)
    \/ RpcReturn(Backlog)
    \/ Wake(Backlog)

SpecRetry == InitRetry /\ [][NextRetry]_vars

\* ------------------------------------------------------------------------
\* The _flush_audit loop on a backlog, once the ledger has recovered
\* ------------------------------------------------------------------------
\* from here on every submit succeeds: the reads are current, nothing fails
Recovered ==
    [overlap |-> FALSE, lag |-> FALSE, faults |-> {}, restarts |-> FALSE,
     history |-> FALSE]

InitCatchUp ==
    /\ \E n \in 0..MaxBacklog : IsWorld(Kept(Recovered, FailedBacklog(Registered, n)))
    /\ MerkleIdle
    /\ TriggerStart
    /\ SelectorStart
    /\ TickIdle
    /\ WeakestIdle

NextCatchUp ==
    \/ Log
    \/ LoopWake(Recovered)
    \/ ReadReturn(Recovered)
    \/ RpcReturn(Recovered)
    \/ Wake(Recovered)

\* The loop keeps running: its sleeps end, and the submits it waits for
\* return.  Nothing is asked of the callers of log.
SpecCatchUp ==
    /\ InitCatchUp
    /\ [][NextCatchUp]_vars
    /\ WF_vars(LoopWake(Recovered))
    /\ WF_vars(ReadReturn(Recovered))
    /\ WF_vars(RpcReturn(Recovered))
    /\ WF_vars(Wake(Recovered))


\* ------------------------------------------------------------------------
\* The batcher when no call overlaps another
\* ------------------------------------------------------------------------
\* log() is called while no flush() or retry_failed_batches() is under way
LogBetweenCalls ==
    /\ task["api"].at = "idle"
    /\ LoopResting(World)
    /\ Log

NextSequential ==
    \/ LogBetweenCalls
    \/ LoopWake(Serial)
    \/ ApiCall(Serial)
    \/ ReadReturn(Serial)
    \/ RpcReturn(Serial)
    \/ Wake(Serial)
    \/ ExternalCommit
    \/ Shutdown(Serial)

\* Every call of the batcher, log() included, returns before the next one
\* starts.
SpecSequential == Init /\ [][NextSequential]_vars

\* ------------------------------------------------------------------------
\* The per-domain score windows (_self_evaluation, _cross_agent_challenges)
\* ------------------------------------------------------------------------
SCORE_WINDOW == 20
MaxScored == 22

\* domain_key in scores_by_domain
HasDomain(score_map, domain_key) ==
    \E i \in 1..Len(score_map) : score_map[i].domain = domain_key

\* a window that drops its newest score when it is full
pop_oldest_newest_dropped(scores) ==
    IF Len(scores) > SCORE_WINDOW THEN SubSeq(scores, 1, Len(scores) - 1)
    ELSE scores

\* lines 368-369, 605-606: if len(scores) > 20: scores.pop(0)
pop_oldest(scores) ==
    IF Len(scores) > SCORE_WINDOW THEN Tail(scores) ELSE scores

\* lines 364-369, 601-606: the domain gets an empty list if it has none, the
\* score is appended to it and the list cut back to the window
track_domain_score(score_map, domain_key, score) ==
    LET with_key == IF HasDomain(score_map, domain_key) THEN score_map
                    ELSE Append(score_map,
                                [domain |-> domain_key, scores |-> <<>>])
    IN  [i \in 1..Len(with_key) |->
            IF with_key[i].domain = domain_key
            THEN [with_key[i] EXCEPT !.scores = pop_oldest(Append(@, score))]
            ELSE with_key[i]]

\* _self_evaluation has a result for a domain.  The scores of a window are
\* 1, 2, 3, ... as they arrive: a score tells which arrival it is.
SelfEvaluation ==
    /\ \E domain_key \in SelfDomains :
       LET score == wd_scored.self[domain_key] + 1
       IN  /\ score <= MaxScored
           /\ wd_scored' = [wd_scored EXCEPT !.self[domain_key] = score]
           /\ wd_self_scores' =
                  track_domain_score(wd_self_scores, domain_key, score)
    /\ UNCHANGED <<wd_peer_scores, wd_result, wd_done, batcher_vars,
                   merkle_vars, trigger_vars, selector_vars, tick_vars>>

\* _cross_agent_challenges has a judge's score for a peer's answer
CrossAgentChallenge ==
    /\ \E domain_key \in PeerDomains :
       LET score == wd_scored.peer[domain_key] + 1
       IN  /\ score <= MaxScored
           /\ wd_scored' = [wd_scored EXCEPT !.peer[domain_key] = score]
           /\ wd_peer_scores' =
                  track_domain_score(wd_peer_scores, domain_key, score)
    /\ UNCHANGED <<wd_self_scores, wd_result, wd_done, batcher_vars,
                   merkle_vars, trigger_vars, selector_vars, tick_vars>>

InitWindows ==
    /\ WeakestIdle
    /\ BatcherAbsent
    /\ MerkleIdle
    /\ TriggerStart
    /\ SelectorStart
    /\ TickIdle

NextWindows == SelfEvaluation \/ CrossAgentChallenge

SpecWindows == InitWindows /\ [][NextWindows]_vars

\* ------------------------------------------------------------------------
\* Properties
\* ------------------------------------------------------------------------

\* C1: no logged entry is ever lost: in every reachable state every entry
\* returned by log() is in pending_entries or in the entries of a batch of
\* flushed_batches, also when log() runs while flush() waits for the ledger
\* or sleeps between attempts.
C1_NoEntryLost ==
    \A uid \in 1..logged :
        \/ \E i \in 1..Len(pending_entries) : pending_entries[i].uid = uid
        \/ \E b \in 1..Len(flushed_batches) :
           \E i \in 1..Len(flushed_batches[b].entries) :
              flushed_batches[b].entries[i].uid = uid

\* C2: two firings of one trigger category are at least 600 seconds apart,
\* whatever the other categories do: a call that fires a category which has
\* fired before is made at least URGENT_COOLDOWN_SECONDS after that firing.
C2_CooldownPerCategory ==
    [][\A c \in DOMAIN last_fired :
          (result'.fired /\ result'.category = c)
              => now - last_fired[c] >= URGENT_COOLDOWN_SECONDS]_vars

\* a category has fired twice, and nothing else has fired
C2_FiredTwice ==
    /\ result.fired
    /\ DOMAIN last_fired = {result.category}
    /\ fired_since_reset = 2
    /\ now < HOUR_SECONDS

\* C3: once MAX_URGENT_PER_HOUR triggers have fired since the last hourly
\* reset, a call made before the next reset returns no trigger and changes
\* no cooldown, even when a category qualifies and is off cooldown; and the
\* counter is reset only by a call made at least 3600 seconds after the
\* previous reset.
C3_HourlyBudget ==
    [][/\ (/\ fired_since_reset >= MAX_URGENT_PER_HOUR
           /\ now - hourly_challenge_reset_ts < HOUR_SECONDS
           /\ result'.category # NoResult.category)
          => (~result'.fired /\ urgent_cooldowns' = urgent_cooldowns)
       /\ (\/ hourly_challenge_count' < hourly_challenge_count
           \/ hourly_challenge_reset_ts' # hourly_challenge_reset_ts)
          => (/\ now - hourly_challenge_reset_ts >= HOUR_SECONDS
              /\ hourly_challenge_reset_ts' = now
              /\ result'.category # NoResult.category)]_vars

\* the budget is used up and a call has refused a new peer whose category
\* is off cooldown
C3_NinthRefused ==
    /\ fired_since_reset = MAX_URGENT_PER_HOUR
    /\ result = [fired |-> FALSE, category |-> <<"", "">>]
    /\ online_peers \ challenged_peers # {}
    /\ check_cooldown(Engine, Category("new_peer", ""))
    /\ now - hourly_challenge_reset_ts < HOUR_SECONDS

\* C4: Merkle round trip: for every non-empty list of hashes and every valid
\* index i, verify_merkle_proof(hashes[i], compute_merkle_proof(hashes, i),
\* compute_merkle_root(hashes)) is true.
C4_RoundTrip ==
    (m_done /\ m_hashes # <<>> /\ m_index < Len(m_hashes)) => m_verified

\* the last hash of a list of three, the node that is paired with itself, is
\* verified by its proof of two steps
C4_VerifiedOddLast ==
    /\ m_done
    /\ Len(m_hashes) = 3
    /\ m_index = 2
    /\ Len(m_proof) = 2
    /\ m_proof[1] = [position |-> "right", hash |-> m_hashes[3]]
    /\ m_verified

\* C5: every batch produced by flush() has entries_count = len(entries) and
\* merkle_root = compute_merkle_root of its entries' hashes in order, and
\* every batch of flushed_batches keeps both through all later calls.
C5_BatchInvariant ==
    LET Sound(batch) ==
            /\ batch.entries_count = Len(batch.entries)
            /\ batch.merkle_root = compute_merkle_root(EntryHashes(batch.entries))
    IN  /\ \A b \in 1..Len(flushed_batches) : Sound(flushed_batches[b])
        /\ (returned.op = "flush" /\ returned.ret # <<>>) => Sound(returned.ret[1])

\* a batch of two entries with different hashes has been stored by a later
\* retry_failed_batches
C5_BatchAfterRetry ==
    /\ returned.op = "retry"
    /\ returned.ret >= 1
    /\ \E b \in 1..Len(flushed_batches) :
          /\ flushed_batches[b].entries_count = 2
          /\ flushed_batches[b].on_chain

\* C6: if every commit attempt of a flush() call fails, whatever the kind of
\* each failure, the returned batch has no tx_signature, has a recorded
\* store_error, and is in flushed_batches.
C6_FailureRecorded ==
    (returned.op = "flush" /\ returned.ret # <<>> /\ has_client
        /\ returned.last \in Errors)
    => /\ returned.ret[1].tx_signature = None
       /\ returned.ret[1].store_error # ""
       /\ flushed_batches[Len(flushed_batches)] = returned.ret[1]

\* C7 (as stated): after an attempt failed with the index collision, the
\* next attempt of the call uses an index freshly read from the ledger.
C7_NextAttemptReadsLedger ==
    \A t \in Tasks :
        (task[t].at = "rpc" /\ task[t].c.prev = "collision")
            => task[t].c.src = "chain"

\* C7: stale-index recovery: when an attempt fails with the index collision
\* the cached next index is removed at once, before the sleep; it comes back
\* only by a commit that succeeded since, as the index after that commit's;
\* so the next attempt uses a freshly read index or, when another call has
\* committed during the sleep, the index cached by that commit, and never
\* the cached index of the failed attempt.
C7_StaleIndexRecovery ==
    [][/\ \A t \in Tasks :
             (task[t].at = "rpc" /\ task'[t].at = "backoff"
                 /\ task'[t].c.prev = "collision")
                 => merkle_batch_cache' = None
       /\ (merkle_batch_cache = None /\ merkle_batch_cache' # None)
             => (/\ Len(ledger') = Len(ledger) + 1
                 /\ merkle_batch_cache' = Len(ledger'))
       /\ \A t \in Tasks :
             (task[t].at = "backoff" /\ task[t].c.prev = "collision"
                 /\ task'[t].at = "rpc")
                 => \/ task'[t].c.src = "chain"
                    \/ (task'[t].c.src = "cache"
                            /\ task'[t].c.idx = merkle_batch_cache
                            /\ task'[t].c.idx # task[t].c.idx)]_vars

\* after a collision the next attempt of a flush went out with the index
\* that another call's commit had cached during the sleep
C7_RetriedWithIndexOfOtherCall ==
    \E t \in Tasks :
        /\ task[t].at = "rpc"
        /\ task[t].c.prev = "collision"
        /\ task[t].c.src = "cache"
        /\ task[t].c.idx = Len(ledger)

\* C8: with a ledger that accepts every submit, flush(force=False) with at
\* least batch_size pending entries returns a batch with all the pending
\* entries in insertion order, their number, the root of their hashes in
\* that order and a tx_signature; afterwards pending_entries is empty.
C8_FlushAtThreshold ==
    (returned.op = "flush" /\ ~returned.force /\ has_client
        /\ Len(returned.pending_at_call) >= batch_size
        /\ returned.last \notin Errors)
    => /\ returned.ret # <<>>
       /\ returned.ret[1].entries =
              [i \in 1..Len(returned.pending_at_call) |->
                  to_dict(returned.pending_at_call[i])]
       /\ returned.ret[1].entries_count = Len(returned.pending_at_call)
       /\ returned.ret[1].merkle_root =
              compute_merkle_root(EntryHashes(returned.pending_at_call))
       /\ returned.ret[1].tx_signature # None
       /\ pending_entries = <<>>

\* an unforced flush at the threshold has returned its batch, stored at the
\* first attempt
C8_FlushedAtThreshold ==
    /\ returned.op = "flush"
    /\ ~returned.force
    /\ has_client
    /\ Len(returned.pending_at_call) = batch_size
    /\ returned.n = 1
    /\ returned.last = "ok"
    /\ returned.ret # <<>>

\* C9: whatever the ledger does (success, transient, index-collision or
\* permanent error, unreachable at every attempt), flush(force=True) with
\* pending entries returns a batch, which is saved locally and is the last
\* of flushed_batches, and leaves pending_entries empty.
C9_ForcedFlushAlwaysReturns ==
    (returned.op = "flush" /\ returned.force /\ returned.pending_at_call # <<>>)
    => /\ returned.ret # <<>>
       /\ returned.ret[1].batch_index \in DOMAIN disk
       /\ disk[returned.ret[1].batch_index] = returned.ret[1]
       /\ flushed_batches # <<>>
       /\ flushed_batches[Len(flushed_batches)] = returned.ret[1]
       /\ pending_entries = <<>>

\* a forced flush has returned after three failed attempts
C9_ReturnedAfterThreeFailures ==
    /\ returned.op = "flush"
    /\ returned.force
    /\ returned.pending_at_call # <<>>
    /\ returned.n = 3
    /\ returned.last \in Errors
    /\ returned.ret # <<>>

\* C10: on a clean shutdown every entry pending at that moment is flushed
\* into a batch that is saved locally before the loop exits: once the tasks
\* have been cancelled, no entry is left pending that is not in a saved batch.
C10_ShutdownFlushesPending ==
    stopped =>
        \A p \in 1..Len(pending_entries) :
            \E k \in DOMAIN disk :
            \E i \in 1..Len(disk[k].entries) :
                disk[k].entries[i].uid = pending_entries[p].uid

\* C11: after a restart that restores prior data (a state file with at least
\* one saved batch), total_entries_logged and total_batches_stored are not
\* lower than they were when the state was saved.
C11_CountersSurviveRestart ==
    (returned.op = "restart" /\ state_file.exists
        /\ state_file.audit_batches # <<>>)
    => /\ total_entries_logged >= state_file.entries_logged_at_save
       /\ total_batches_stored >= state_file.batches_stored_at_save

\* C12: get_proof_for_entry(h) returns, for the hash of a pending entry, a
\* proof against the root of the current pending sequence marked
\* on_chain = false (also when h is in a flushed batch too); otherwise, for
\* a hash in a flushed batch, a proof against that batch's merkle_root with
\* its tx_signature; otherwise null.  A returned proof verifies for h
\* against the returned root.
C12_ProofForEntry ==
    returned.op = "proof" =>
        LET h       == returned.entry_hash
            pending == EntryHashes(pending_entries)
            InBatch(b) ==
                /\ "entries" \in DOMAIN flushed_batches[b]
                /\ \E i \in 1..Len(flushed_batches[b].entries) :
                      flushed_batches[b].entries[i].entry_hash = h
            Verifies(r) == verify_merkle_proof(h, r.proof, r.merkle_root)
        IN  /\ returned.raised = ""
            /\ IF \E i \in 1..Len(pending) : pending[i] = h
               THEN /\ returned.out # <<>>
                    /\ returned.out[1].merkle_root = compute_merkle_root(pending)
                    /\ ~returned.out[1].on_chain
                    /\ Verifies(returned.out[1])
               ELSE IF \E b \in 1..Len(flushed_batches) : InBatch(b)
               THEN /\ returned.out # <<>>
                    /\ \E b \in 1..Len(flushed_batches) :
                          /\ InBatch(b)
                          /\ returned.out[1].merkle_root = flushed_batches[b].merkle_root
                          /\ returned.out[1].tx_signature = flushed_batches[b].tx_signature
                    /\ Verifies(returned.out[1])
               ELSE returned.out = <<>>

\* C13: with non-overlapping log, flush and retry_failed_batches calls, the
\* batch at position i of flushed_batches (counted from 0) has batch_index i:
\* indices are unique and strictly increasing in flush order, whether or not
\* the commits succeeded.
C13_BatchIndexIsPosition ==
    \A b \in 1..Len(flushed_batches) : flushed_batches[b].batch_index = b - 1

\* two batches have been flushed, the first one's commit failed and the
\* second one's succeeded
C13_TwoBatchesOneFailed ==
    /\ Len(flushed_batches) = 2
    /\ flushed_batches[1].tx_signature = None
    /\ flushed_batches[2].tx_signature # None

\* C14: each call of _should_challenge_urgently fires at most one trigger,
\* and the trigger fired is the first, in the order reputation_drop,
\* new_peer, low_self_score:<domain>, score_variance:<domain>, whose
\* condition holds (reputation at least 200 below the last observed value;
\* an online peer absent from the recent challenges; a domain with at least
\* 2 self-scores whose latest is below 55; a domain with at least 3
\* self-scores whose two latest differ by at least 10) and whose category is
\* off cooldown (has not fired in the last 600 seconds); if none matches,
\* nothing fires.
C14_FirstMatchFires ==
    [][LET Order == <<Category("reputation_drop", ""), Category("new_peer", ""),
                      Category("low_self_score", "defi"),
                      Category("score_variance", "defi")>>
           scores == IF "defi" \in DOMAIN self_domain_scores
                     THEN self_domain_scores["defi"] ELSE <<>>
           n == Len(scores)
           Holds(i) ==
               CASE i = 1 -> last_reputation - reputation_score >= 200
                 [] i = 2 -> \E p \in online_peers : p \notin challenged_peers
                 [] i = 3 -> n >= 2 /\ scores[n] < 55
                 [] i = 4 -> n >= 3 /\ (\/ scores[n] - scores[n - 1] >= 10
                                        \/ scores[n - 1] - scores[n] >= 10)
           OffCooldown(c) ==
               c \in DOMAIN urgent_cooldowns
                   => now - urgent_cooldowns[c] >= URGENT_COOLDOWN_SECONDS
           Matches == {i \in 1..4 : Holds(i) /\ OffCooldown(Order[i])}
           Refired == {c \in DOMAIN urgent_cooldowns' :
                          c \in DOMAIN urgent_cooldowns
                              => urgent_cooldowns'[c] # urgent_cooldowns[c]}
       IN  result'.category # NoResult.category =>
               /\ result'.fired =>
                      /\ \E i \in Matches :
                            /\ result'.category = Order[i]
                            /\ \A j \in Matches : i <= j
                      /\ Refired = {result'.category}
               /\ ~result'.fired => Refired = {}
               /\ Matches = {} => ~result'.fired]_vars

\* score_variance has fired in a call in which the conditions of new_peer
\* and low_self_score held too, both on cooldown, after reputation_drop
\* had fired
C14_FourthInOrderFired ==
    /\ result.fired
    /\ result.category = Category("score_variance", "defi")
    /\ online_peers \ challenged_peers # {}
    /\ self_domain_scores["defi"][3] < LOW_SCORE_THRESHOLD
    /\ DOMAIN urgent_cooldowns =
           {Category("reputation_drop", ""), Category("new_peer", ""),
            Category("low_self_score", "defi"), Category("score_variance", "defi")}
    /\ now - urgent_cooldowns[Category("new_peer", "")] < URGENT_COOLDOWN_SECONDS
    /\ now - urgent_cooldowns[Category("low_self_score", "defi")]
           < URGENT_COOLDOWN_SECONDS

\* C15: flush(force=False) with fewer than batch_size pending entries
\* returns null and changes nothing (pending_entries, flushed_batches, the
\* counters, the ledger, the cached ledger index, the local storage);
\* should_flush() is true exactly when the number of pending entries is at
\* least batch_size.
C15_UnforcedBelowThreshold ==
    [][/\ (/\ task["api"].at = "idle"
           /\ returned'.op = "flush" /\ returned'.by = "api"
           /\ ~returned'.force
           /\ Len(pending_entries) < batch_size)
          => /\ returned'.ret = <<>>
             /\ UNCHANGED <<pending_entries, flushed_batches,
                            total_entries_logged, total_batches_stored,
                            ledger, merkle_batch_cache, disk>>
       /\ ~(/\ task["api"].at = "idle" /\ task'["api"].at = "rpc"
             /\ task'["api"].c.op = "flush" /\ ~task'["api"].c.force
             /\ Len(pending_entries) < batch_size)
       /\ should_flush(World) <=> (Len(pending_entries) >= batch_size)]_vars

\* an unforced flush has returned null with an entry pending and a batch
\* flushed before
C15_ReturnedNullBelowThreshold ==
    /\ returned.op = "flush"
    /\ returned.by = "api"
    /\ ~returned.force
    /\ returned.ret = <<>>
    /\ Len(pending_entries) = batch_size - 1
    /\ Len(pending_entries) >= 1
    /\ flushed_batches # <<>>

\* C16: flush(force=True) with an empty pending sequence returns null,
\* appends no batch, writes no batch record, makes no ledger call (it
\* returns without waiting) and leaves total_batches_stored unchanged,
\* however often it is repeated: in every cycle of the _flush_audit loop
\* that finds nothing pending.  Where the cycle had no batch to retry
\* either, the ledger, the cached index and the batch files are as they
\* were.
C16_ForcedEmptyFlush ==
    [][/\ (/\ returned'.op = "flush" /\ returned'.by = "loop"
           /\ returned'.force
           /\ pending_entries = <<>>)
          => /\ returned'.ret = <<>>
             /\ pending_entries' = <<>>
             /\ Len(flushed_batches') = Len(flushed_batches)
             /\ DOMAIN disk' = DOMAIN disk
             /\ total_batches_stored' = total_batches_stored
             /\ LoopResting(World)
                   => UNCHANGED <<flushed_batches, disk, ledger,
                                  merkle_batch_cache>>
       /\ ~(/\ task["loop"].c.op # "flush"
             /\ task'["loop"].c.op = "flush"
             /\ task'["loop"].at \in {"read", "rpc"}
             /\ pending_entries = <<>>)]_vars

\* a forced flush with nothing pending has returned null, all logged entries
\* being in the batches flushed before
C16_ReturnedNullOnEmpty ==
    /\ returned.op = "flush"
    /\ returned.by = "loop"
    /\ returned.force
    /\ returned.pending_at_call = <<>>
    /\ returned.ret = <<>>
    /\ Len(flushed_batches) >= 2

\* C17: log() always succeeds, never calls the ledger and never flushes: it
\* appends exactly one entry at the end of pending_entries, adds 1 to
\* total_entries_logged, and leaves flushed_batches and total_batches_stored
\* unchanged (and the ledger, the cached index and the batch files), also
\* when the pending count reaches batch_size.  The calls under way are as
\* they were; the only call that begins in the step of a log is the flush
\* the /merkle-flush-test endpoint makes after it, over the entries that
\* log() left pending.
C17_LogOnlyAppends ==
    [][logged' # logged =>
          /\ logged' = logged + 1
          /\ Len(pending_entries') = Len(pending_entries) + 1
          /\ SubSeq(pending_entries', 1, Len(pending_entries)) = pending_entries
          /\ pending_entries'[Len(pending_entries')].uid = logged'
          /\ total_entries_logged' = total_entries_logged + 1
          /\ UNCHANGED <<flushed_batches, total_batches_stored, ledger,
                         merkle_batch_cache, disk>>
          /\ \/ UNCHANGED task
             \/ /\ task["api"].at = "idle"
                /\ task'["loop"] = task["loop"]
                /\ task'["api"].c.op = "flush"
                /\ task'["api"].c.force
                /\ task'["api"].c.pending_at_call = pending_entries']_vars

\* log() has returned with more than batch_size entries pending and no
\* batch flushed
C17_LoggedPastThreshold ==
    /\ logged = Len(pending_entries)
    /\ Len(pending_entries) > batch_size
    /\ flushed_batches = <<>>
    /\ \A t \in Tasks : task[t].at # "rpc"

\* C18: select_question(peer) never returns a question whose id is already
\* in that peer's history unless every question of the pool is in it; in
\* that case the history is reset and afterwards holds exactly the newly
\* selected question.  Hence, starting from an empty history, the first
\* |pool| selections for a peer are pairwise distinct.
C18_NoRepeatUntilExhausted ==
    /\ [][\A p \in Peers :
             Len(asked_log'[p]) # Len(asked_log[p]) =>
                 LET asked == IF p \in DOMAIN peer_history
                              THEN peer_history[p] ELSE {}
                     pool  == {ALL_QUESTIONS[i].id : i \in 1..Len(ALL_QUESTIONS)}
                 IN  /\ selected' = [peer |-> p, id |-> asked_log'[p][Len(asked_log'[p])]]
                     /\ selected'.id \in pool
                     /\ selected'.id \in asked => pool \subseteq asked
                     /\ peer_history'[p] = IF pool \subseteq asked
                                           THEN {selected'.id}
                                           ELSE asked \cup {selected'.id}]_vars
    /\ [](\A p \in Peers :
             \A i, j \in 1..Len(asked_log[p]) :
                 (i < j /\ j <= Len(ALL_QUESTIONS)) => asked_log[p][i] # asked_log[p][j])

\* a peer has been asked every question of the pool and one more, which
\* is now its whole history
C18_HistoryReset ==
    \E p \in Peers :
        /\ Len(asked_log[p]) = Len(ALL_QUESTIONS) + 1
        /\ selected.peer = p
        /\ peer_history[p] = {selected.id}

\* C19: _get_weakest_domain returns the domain whose average over its last
\* 5 self-scores is lowest (e.g. "defi" for {defi: [40, 45], solana:
\* [90, 92], security: [70]}); it uses the peer-observed scores only when
\* there are no self-scores at all, and it returns null exactly when no
\* score data exists in either map.
C19_WeakestDomain ==
    wd_done =>
        LET source == IF wd_self_scores # <<>> THEN wd_self_scores
                      ELSE wd_peer_scores
            Last5(s) == SubSeq(s, IF Len(s) > 5 THEN Len(s) - 4 ELSE 1, Len(s))
            \* the sum of the last five scores, times 60, over their number
            Avg60(s) == (SumOf(Last5(s)) * 60) \div Len(Last5(s))
        IN  /\ (wd_result = <<>>) <=> (wd_self_scores = <<>> /\ wd_peer_scores = <<>>)
            /\ wd_result # <<>> =>
                  \E i \in 1..Len(source) :
                      /\ source[i].domain = wd_result[1]
                      /\ \A j \in 1..Len(source) :
                            Avg60(source[i].scores) <= Avg60(source[j].scores)
            /\ (wd_self_scores = <<[domain |-> "defi", scores |-> <<40, 45>>],
                                   [domain |-> "solana", scores |-> <<90, 92>>],
                                   [domain |-> "security", scores |-> <<70>>]>>)
                  => wd_result = <<"defi">>

\* the function has returned a domain of the own scores whose last five
\* scores average lowest while all its scores average higher than another
\* domain's, with peer scores present that would have given another answer
C19_WindowDecides ==
    /\ wd_done
    /\ wd_self_scores = <<[domain |-> "solana", scores |-> <<10, 80, 80, 80, 80, 80>>],
                          [domain |-> "defi", scores |-> <<70>>]>>
    /\ wd_peer_scores = <<[domain |-> "security", scores |-> <<40, 45>>]>>
    /\ wd_result = <<"defi">>

\* C20: compute_merkle_root pairs adjacent nodes left to right and, at every
\* level of odd length, pairs the last node with itself (it is neither
\* dropped nor padded with zeros): for [a, b, c] the root is
\* H(H(a||b) || H(c||c)); the empty list gives the all-zero root and a
\* single hash is returned unchanged.
C20_RootStructure ==
    m_done =>
        LET H(x, y) == Sha256Pair(x, y)
            n == Len(m_hashes)
            leaf(i) == FromHex(m_hashes[i])
        IN  CASE n = 0 -> m_root = EmptyRoot
              [] n = 1 -> m_root = m_hashes[1]
              [] n = 2 -> m_root = ToHex(H(leaf(1), leaf(2)))
              [] n = 3 -> m_root = ToHex(H(H(leaf(1), leaf(2)), H(leaf(3), leaf(3))))
              [] n = 4 -> m_root = ToHex(H(H(leaf(1), leaf(2)), H(leaf(3), leaf(4))))
              [] n = 5 -> m_root = ToHex(H(H(H(leaf(1), leaf(2)), H(leaf(3), leaf(4))),
                                           H(H(leaf(5), leaf(5)), H(leaf(5), leaf(5)))))
              [] OTHER -> TRUE

\* the root of three different hashes has been computed
C20_RootOfThree ==
    /\ m_done
    /\ Len(m_hashes) = 3
    /\ \A i, j \in 1..3 : i # j => m_hashes[i].bytes # m_hashes[j].bytes
    /\ m_root.bytes[2] = <<m_hashes[3].bytes, m_hashes[3].bytes>>

\* C21 (as stated): for every non-empty list, valid index i and hex string
\* h' different from hashes[i], the proof of i does not verify for h', and
\* the list with h' at i has another root.
C21_AnyOtherStringFails ==
    (m_done /\ m_index < Len(m_hashes) /\ m_other # m_hashes[m_index + 1])
        => (~m_other_verified /\ m_other_root # m_root)

\* C21: tamper sensitivity, SHA-256 taken as collision-free: for every
\* non-empty list hashes, valid index i and h' denoting other bytes than
\* hashes[i] (hex strings are read without regard to case), the proof of i
\* does not verify for h' against the root, and the list with h' at i has
\* another root.
C21_TamperSensitive ==
    (m_done /\ m_index < Len(m_hashes)
        /\ FromHex(m_other) # FromHex(m_hashes[m_index + 1]))
        => (~m_other_verified /\ m_other_root # m_root)

\* a list of three hashes with a different hash in the place of the last
\* one, which the tree pairs with itself
C21_TamperedLast ==
    /\ m_done
    /\ Len(m_hashes) = 3
    /\ m_index = 2
    /\ FromHex(m_other) # FromHex(m_hashes[3])
    /\ ~m_other_verified
    /\ m_verified

\* C22: when two flush() calls on one batcher overlap (the _flush_audit loop
\* and the /merkle-flush-test endpoint, interleaved at the ledger await), no
\* two batches of flushed_batches have the same batch_index, no entry is in
\* more than one batch, and no set of entries is committed to the ledger
\* twice.
C22_OverlappingFlushes ==
    \A b1, b2 \in 1..Len(flushed_batches) :
        b1 # b2 =>
            LET Uids(b) == {flushed_batches[b].entries[i].uid :
                               i \in 1..Len(flushed_batches[b].entries)}
            IN  /\ flushed_batches[b1].batch_index # flushed_batches[b2].batch_index
                /\ Uids(b1) \cap Uids(b2) = {}
                /\ (/\ flushed_batches[b1].tx_signature # None
                    /\ flushed_batches[b2].tx_signature # None)
                       => Uids(b1) # Uids(b2)

\* C23: when the ledger fails a commit with a permanent error (insufficient
\* funds or authorization), flush() does not retry it: no backoff follows
\* the failed attempt, exactly one submit attempt is made in that flush call
\* and the error is recorded on the batch.
C23_PermanentErrorNotRetried ==
    /\ \A t \in Tasks :
          ~(/\ task[t].c.op = "flush"
            /\ task[t].at = "backoff"
            /\ task[t].c.prev = "permanent")
    /\ (returned.op = "flush" /\ returned.ret # <<>>
           /\ returned.last = "permanent")
          => (returned.n = 1 /\ returned.ret[1].store_error # "")

\* C24: one flush() call makes at most 3 ledger submit attempts in total,
\* and makes no further attempt after the first one that succeeds: the call
\* returns its batch, with the signature, in the step in which the ledger
\* stores the root.
C24_AtMostThreeAttempts ==
    /\ [](/\ \A t \in Tasks : task[t].c.op = "flush" => task[t].c.n <= 3
          /\ returned.op = "flush" => returned.n <= 3)
    /\ [][\A t \in Tasks :
             (/\ task[t].at = "rpc" /\ task[t].c.op = "flush"
              /\ task'[t] # task[t]
              /\ Len(ledger') > Len(ledger) /\ external' = external)
             => /\ returned'.op = "flush" /\ returned'.by = t
                /\ returned'.n = task[t].c.n
                /\ returned'.ret # <<>>
                /\ returned'.ret[1].tx_signature # None]_vars

\* a flush has returned its batch stored at the third attempt
C24_StoredAtThirdAttempt ==
    /\ returned.op = "flush"
    /\ returned.n = 3
    /\ returned.last = "ok"
    /\ returned.ret # <<>>
    /\ returned.ret[1].tx_signature # None

\* C25: for every batch that has a commit signature, the index under which
\* the ledger stored its root (which the model's signature is) equals the
\* batch's local batch_index, for every pattern of earlier commit failures
\* and later retries.
C25_LedgerIndexIsBatchIndex ==
    \A b \in 1..Len(flushed_batches) :
        flushed_batches[b].tx_signature # None
            => flushed_batches[b].tx_signature = flushed_batches[b].batch_index

\* C26: in any interval of 3600 seconds of one agent's run, at most 8 urgent
\* triggers fire in total across all categories, wherever the interval
\* starts.
C26_EightPerAnyHour ==
    \A start \in DOMAIN fired_times :
        LET RECURSIVE Total(_)
            Total(times) ==
                IF times = {} THEN 0
                ELSE LET t == CHOOSE x \in times : TRUE
                     IN  fired_times[t] + Total(times \ {t})
        IN  Total({t \in DOMAIN fired_times :
                      start <= t /\ t < start + HOUR_SECONDS})
                <= MAX_URGENT_PER_HOUR

\* C27: when the new_peer trigger fires for an online peer P in a pass of the
\* cross-agent challenge loop, the pass issues its challenge, and to P: a
\* pass in which new_peer fired for P and which found P online when it took
\* its peer has gone on to address a peer, without an error, and that peer
\* is P.
C27_ChallengeSentToNewPeer ==
    (/\ tick.outcome \notin {"none", "discovering"}
     /\ tick.new_peer # ""
     /\ tick.new_peer \in tick.online)
        => /\ tick.outcome = "targeting_peer"
           /\ tick.raised = ""
           /\ tick.target = tick.new_peer

\* C28: select_question takes the target peer's name and the preferred
\* domain the loop passes, and returns a question without an error: a pass
\* that has taken an online peer to address does not end in an exception
\* but goes on to its challenge.
C28_SelectionSucceeds ==
    tick.target # "" => (tick.raised = "" /\ tick.outcome = "targeting_peer")

\* C29: once load_state has restored the batches of the state file (a batch
\* it restored is one that holds no entries), get_proof_for_entry raises no
\* error, and for the hash of an entry of a batch flushed before the restart
\* (its batch file holds the entries) that is not pending now, it returns a
\* proof that verifies against that batch's merkle_root.
C29_ProofAfterRestart ==
    LET Restored(b) == "entries" \notin DOMAIN flushed_batches[b]
        h == returned.entry_hash
        Pending == \E i \in 1..Len(pending_entries) :
                       pending_entries[i].entry_hash = h
        FlushedBefore(b) ==
            /\ Restored(b)
            /\ flushed_batches[b].batch_index \in DOMAIN disk
            /\ \E i \in 1..Len(disk[flushed_batches[b].batch_index].entries) :
                  disk[flushed_batches[b].batch_index].entries[i].entry_hash = h
    IN  (returned.op = "proof" /\ \E b \in 1..Len(flushed_batches) : Restored(b))
            => /\ returned.raised = ""
               /\ \A b \in 1..Len(flushed_batches) :
                     (FlushedBefore(b) /\ ~Pending)
                        => /\ returned.out # <<>>
                           /\ verify_merkle_proof(h, returned.out[1].proof,
                                                  flushed_batches[b].merkle_root)

\* C30: for one peer, two consecutive select_question calls never return
\* the same question, also when the second call is the one that resets the
\* peer's exhausted history.
C30_NoImmediateRepeat ==
    \A p \in Peers :
        \A i \in 1..Len(asked_log[p]) :
            i < Len(asked_log[p]) => asked_log[p][i] # asked_log[p][i + 1]

\* C31: within one retry_failed_batches call no batch is attempted after
\* three consecutive failed attempts, and only then does the call leave
\* batches of its list untried: failures with a success in between do not
\* add up.
C31_CircuitBreaker ==
    LET ThreeFailed(log, i) ==
            /\ i >= 3
            /\ \A j \in (i - 2)..i : log[j].outcome # "ok"
    IN  /\ \A t \in Tasks :
              (task[t].c.op = "retry" /\ task[t].at \in {"rpc", "backoff"})
                  => \A i \in 1..Len(task[t].c.attempts) :
                         ~ThreeFailed(task[t].c.attempts, i)
        /\ returned.op = "retry"
              => /\ \A i \in 1..Len(returned.attempts) :
                       ThreeFailed(returned.attempts, i)
                           => i = Len(returned.attempts)
                 /\ Len(returned.attempts) < Len(returned.to_retry)
                       => ThreeFailed(returned.attempts, Len(returned.attempts))

\* a call has returned with batches left untried, after two failures, a
\* success and three more failures
C31_StoppedAfterReset ==
    /\ returned.op = "retry"
    /\ Len(returned.attempts) < Len(returned.to_retry)
    /\ \E i \in 1..Len(returned.attempts) :
          /\ i + 2 <= Len(returned.attempts)
          /\ returned.attempts[i].outcome # "ok"
          /\ returned.attempts[i + 1].outcome # "ok"
          /\ returned.attempts[i + 2].outcome = "ok"

\* C32: one call of retry_failed_batches attempts only batches whose
\* tx_signature was null, at most the MAX_RETRY most recently flushed of
\* them, each at most once (in flush order), and returns the number of
\* batches whose tx_signature it set.
C32_RetryWindow ==
    returned.op = "retry" =>
        LET log == returned.attempts
            Stored == {i \in 1..Len(log) : log[i].outcome = "ok"}
            \* the batches that were failed when the call began: those still
            \* failed and those the call stored
            FailedAtCall ==
                {p \in 1..Len(flushed_batches) :
                    \/ flushed_batches[p].tx_signature = None
                    \/ \E i \in Stored : log[i].p = p}
        IN  /\ \A i \in 1..Len(log) :
                  /\ log[i].p \in FailedAtCall
                  /\ Cardinality({q \in FailedAtCall : q >= log[i].p}) <= MAX_RETRY
                  /\ \A j \in 1..Len(log) : i < j => log[i].p < log[j].p
            /\ \A i \in Stored : flushed_batches[log[i].p].tx_signature # None
            /\ returned.ret = Cardinality(Stored)
            /\ returned.n = Len(log)

\* a call has returned that began with more than MAX_RETRY failed batches
\* and one stored batch, tried MAX_RETRY batches and stored some of them
C32_WindowOfTen ==
    /\ returned.op = "retry"
    /\ Len(returned.attempts) = MAX_RETRY
    /\ returned.ret \in 1..(MAX_RETRY - 1)
    /\ Cardinality({p \in 1..Len(flushed_batches) :
                       flushed_batches[p].tx_signature = None})
          + returned.ret > MAX_RETRY
    /\ Len(ledger) > returned.ret

\* C33: once every submit succeeds and the _flush_audit loop keeps running,
\* every batch of flushed_batches whose tx_signature is null gets a
\* tx_signature in the end, also in a backlog of more than MAX_RETRY failed
\* batches: whenever there are failed batches, a time comes when every batch
\* that was flushed up to then has its tx_signature.
C33_CatchUp ==
    (\E p \in 1..Len(flushed_batches) : flushed_batches[p].tx_signature = None)
        ~> (\A p \in 1..Len(flushed_batches) :
                flushed_batches[p].tx_signature # None)

\* a backlog of more than MAX_RETRY batches has been stored, every one of
\* them, and the loop sleeps
C33_BacklogStored ==
    /\ Len(flushed_batches) > MAX_RETRY
    /\ \A p \in 1..Len(flushed_batches) : flushed_batches[p].tx_signature # None
    /\ task["loop"].at = "sleep"

\* the statement of C34 without scope: a successful commit leaves as the
\* cached next index the index the root was stored under plus one, and the
\* first submit to begin after it goes to the ledger at once under that
\* index, without a read of the ledger's summary
C34_NextSubmitFromCache ==
    [][LET Waits(t) == task[t].at \in {"read", "rpc"}
           Begins(t) ==
               /\ task'[t].at \in {"read", "rpc"}
               /\ (~Waits(t) \/ task'[t].c.n # task[t].c.n
                      \/ task'[t].c.op # task[t].c.op)
           Stored ==
               /\ Len(ledger') = Len(ledger) + 1
               /\ \E t \in Tasks : task[t].at = "rpc" /\ task'[t] # task[t]
       IN  /\ Stored =>
                 \E t \in Tasks : /\ task[t].at = "rpc"
                                  /\ merkle_batch_cache' = task[t].c.idx + 1
           /\ \A t \in Tasks :
                 (Begins(t) /\ task'[t].c.after # NoStore)
                     => /\ task'[t].at = "rpc"
                        /\ task'[t].c.src = "cache"
                        /\ task'[t].c.idx = task'[t].c.after.idx + 1]_vars

\* C34: a successful commit leaves as the cached next index the index the
\* root was stored under plus one.  The first submit to begin after it goes
\* to the ledger at once under that index, without a read of the ledger's
\* summary, unless a submit that was in flight has since come back with the
\* index refused, which empties the cache: then, and only then, it reads the
\* summary.  At every submit the cache decides: with an index cached the
\* submit uses it, with none it reads; and the cache changes only by a
\* successful commit or by being emptied on a refused index.
C34_CacheAfterSuccess ==
    [][LET Waits(t) == task[t].at \in {"read", "rpc"}
           Begins(t) ==
               /\ task'[t].at \in {"read", "rpc"}
               /\ (~Waits(t) \/ task'[t].c.n # task[t].c.n
                      \/ task'[t].c.op # task[t].c.op)
           Stored ==
               /\ Len(ledger') = Len(ledger) + 1
               /\ \E t \in Tasks : task[t].at = "rpc" /\ task'[t] # task[t]
       IN  /\ Stored =>
                 /\ merkle_batch_cache' = (Len(ledger') - 1) + 1
                 /\ \E t \in Tasks : /\ task[t].at = "rpc"
                                     /\ merkle_batch_cache' = task[t].c.idx + 1
           /\ \A t \in Tasks :
                 (Begins(t) /\ task'[t].c.after # NoStore)
                     => IF task'[t].c.after.emptied
                        THEN /\ task'[t].at = "read"
                             /\ task'[t].c.src = "chain"
                        ELSE /\ task'[t].at = "rpc"
                             /\ task'[t].c.src = "cache"
                             /\ task'[t].c.idx = task'[t].c.after.idx + 1
           /\ \A t \in Tasks :
                 Begins(t) =>
                     IF merkle_batch_cache' # None
                     THEN /\ task'[t].at = "rpc"
                          /\ task'[t].c.idx = merkle_batch_cache'
                          /\ task'[t].c.src = "cache"
                     ELSE /\ task'[t].at = "read"
                          /\ task'[t].c.src = "chain"
           /\ (merkle_batch_cache' # merkle_batch_cache /\ ~Stored)
                 => /\ merkle_batch_cache' = None
                    /\ \E t \in Tasks : /\ task[t].at = "rpc"
                                        /\ task[t].c.idx # Len(ledger)]_vars

\* a submit waits for the ledger under the index cached by the store that
\* succeeded just before it, one past the index of that store
C34_SubmitFromCache ==
    \E t \in Tasks :
        /\ task[t].at = "rpc"
        /\ task[t].c.after # NoStore
        /\ ~task[t].c.after.emptied
        /\ task[t].c.src = "cache"
        /\ task[t].c.idx = task[t].c.after.idx + 1
        /\ task[t].c.idx = merkle_batch_cache
        /\ task[t].c.idx = Len(ledger)

\* C35: once new_peer has fired at time t, a call made before t + 600 does
\* not fire new_peer, whatever peer qualifies; a call made at t + 600 or
\* later, with budget remaining, no reputation drop and a peer qualifying,
\* fires new_peer.
C35_NewPeerCooldown ==
    [][LET new_peer == Category("new_peer", "")
           called   == result'.category # NoResult.category
           since    == now - last_fired[new_peer]
           budget   == IF now - hourly_challenge_reset_ts >= HOUR_SECONDS
                       THEN 0 ELSE hourly_challenge_count
           fires    == result'.fired /\ result'.category = new_peer
       IN  (called /\ new_peer \in DOMAIN last_fired)
              => /\ since < URGENT_COOLDOWN_SECONDS => ~fires
                 /\ (/\ since >= URGENT_COOLDOWN_SECONDS
                     /\ budget < MAX_URGENT_PER_HOUR
                     /\ last_reputation - reputation_score < REPUTATION_DROP
                     /\ online_peers \ challenged_peers # {})
                       => fires]_vars

\* new_peer has just fired for the second time, and nothing else has fired
C35_NewPeerFiredAgain ==
    /\ result.fired
    /\ result.category = Category("new_peer", "")
    /\ DOMAIN last_fired = {Category("new_peer", "")}
    /\ fired_since_reset = 2
    /\ online_peers \ challenged_peers # {}

\* C36: compute_merkle_root binds the list: a non-empty list of entry
\* hashes (written in lower case, as hexdigest writes them) has a root that
\* no other non-empty list of such hashes has, of whatever length.
C36_RootBindsList ==
    (m_done /\ m_hashes # <<>>
        /\ \A i \in 1..Len(m_hashes) : ~m_hashes[i].upper)
    => \A n \in 1..MaxHashes :
          \A other \in [1..n -> {h \in LeafHashes : ~h.upper}] :
              other # m_hashes => compute_merkle_root(other) # m_root

\* the sum of entries_count over a list of batches
RECURSIVE SumEntriesCount(_)
SumEntriesCount(batches) ==
    IF batches = <<>> THEN 0
    ELSE batches[1].entries_count + SumEntriesCount(Tail(batches))

\* C37: when calls do not overlap, in every reachable state of a batcher that
\* started fresh total_batches_stored = len(flushed_batches) and
\* total_entries_logged = len(pending_entries) + the sum of entries_count
\* over flushed_batches.
C37_CountersAgree ==
    /\ total_batches_stored = Len(flushed_batches)
    /\ total_entries_logged =
          Len(pending_entries) + SumEntriesCount(flushed_batches)

\* a retry_failed_batches has returned after two flushes, with an entry
\* logged since
C37_AfterLogFlushRetry ==
    /\ returned.op = "retry"
    /\ Len(flushed_batches) >= 2
    /\ pending_entries # <<>>

\* C38: a step of a retry_failed_batches call (the _flush_audit loop makes
\* one in every cycle, and goes on to its flush in the step in which the
\* call returns) never submits or changes a batch that has a tx_signature,
\* changes no field of any batch other than tx_signature, on_chain and
\* store_error, and leaves the number of batches, pending_entries and both
\* counters unchanged.
C38_RetryFrame ==
    [][LET c == task'["loop"].c
           RetryStep ==
               /\ task'["loop"] # task["loop"]
               /\ \/ task["loop"].c.op = "retry"
                  \/ c.op = "retry"
                  \/ returned'.op = "retry"
       IN  RetryStep =>
             /\ Len(flushed_batches') = Len(flushed_batches)
             /\ \A b \in 1..Len(flushed_batches) :
                   /\ DOMAIN flushed_batches'[b] = DOMAIN flushed_batches[b]
                   /\ \A k \in DOMAIN flushed_batches[b]
                               \ {"tx_signature", "on_chain", "store_error"} :
                         flushed_batches'[b][k] = flushed_batches[b][k]
                   /\ flushed_batches[b].tx_signature # None
                         => flushed_batches'[b] = flushed_batches[b]
             /\ (c.op = "retry" /\ task'["loop"].at \in {"read", "rpc"})
                   => /\ flushed_batches[c.to_retry[c.k]].tx_signature = None
                      /\ flushed_batches'[c.to_retry[c.k]].tx_signature = None
             /\ UNCHANGED <<pending_entries, total_entries_logged,
                            total_batches_stored>>]_vars

\* the loop's retry_failed_batches has stored a batch, while a batch it did
\* not retry has a tx_signature and an entry is pending
C38_RetriedBesideStored ==
    /\ returned.op = "retry"
    /\ returned.by = "loop"
    /\ returned.ret >= 1
    /\ pending_entries # <<>>
    /\ \E b \in 1..Len(flushed_batches) :
          /\ flushed_batches[b].tx_signature # None
          /\ \A i \in 1..Len(returned.to_retry) : returned.to_retry[i] # b

\* C39: every window of self_domain_scores and of domain_scores holds at
\* most 20 scores, and they are the latest ones in their order of arrival:
\* when the 21st score of a domain arrives the first one is dropped (the
\* scores of a domain being 1, 2, 3, ... as they arrive, the window of a
\* domain that has had n scores is n - len + 1 .. n with len = min(n, 20)).
C39_WindowIsLatest ==
    LET Latest(scores, n) ==
            /\ Len(scores) = (IF n < SCORE_WINDOW THEN n ELSE SCORE_WINDOW)
            /\ \A j \in 1..Len(scores) : scores[j] = n - Len(scores) + j
    IN  /\ \A i \in 1..Len(wd_self_scores) :
              Latest(wd_self_scores[i].scores,
                     wd_scored.self[wd_self_scores[i].domain])
        /\ \A i \in 1..Len(wd_peer_scores) :
              Latest(wd_peer_scores[i].scores,
                     wd_scored.peer[wd_peer_scores[i].domain])
        /\ \A d \in SelfDomains :
              wd_scored.self[d] > 0 => HasDomain(wd_self_scores, d)
        /\ \A d \in PeerDomains :
              wd_scored.peer[d] > 0 => HasDomain(wd_peer_scores, d)

\* a window of own scores and the window of peer scores have had 22 scores,
\* next to a window that is not full
C39_WindowSlid ==
    /\ \E d \in SelfDomains : wd_scored.self[d] = SCORE_WINDOW + 2
    /\ \E d \in SelfDomains :
          wd_scored.self[d] \in 1..(SCORE_WINDOW - 1)
    /\ \E d \in PeerDomains : wd_scored.peer[d] = SCORE_WINDOW + 2

\* C40: a category that has never fired is off cooldown whatever the clock
\* reads: a call made with budget remaining fires reputation_drop if it has
\* never fired and the reputation has dropped, and fires new_peer if it has
\* never fired, the reputation has not dropped and a peer qualifies.
C40_NeverFiredIsOffCooldown ==
    [][LET reputation_drop == Category("reputation_drop", "")
           new_peer == Category("new_peer", "")
           called   == result'.category # NoResult.category
           budget   == IF now - hourly_challenge_reset_ts >= HOUR_SECONDS
                       THEN 0 ELSE hourly_challenge_count
           dropped  == last_reputation - reputation_score >= REPUTATION_DROP
       IN  (called /\ budget < MAX_URGENT_PER_HOUR)
              => /\ (reputation_drop \notin DOMAIN last_fired /\ dropped)
                       => result'.fired /\ result'.category = reputation_drop
                 /\ (/\ new_peer \notin DOMAIN last_fired
                     /\ ~dropped
                     /\ online_peers \ challenged_peers # {})
                       => result'.fired /\ result'.category = new_peer]_vars
====
